---- MODULE Spec2Model ----
(***************************************************************************)
(* PowerCV: the LLM orchestration and response-recovery pipeline.          *)
(*                                                                         *)
(* A text (a Python str) is a sequence of tokens.  A token is one          *)
(* punctuation character, one whitespace character, a code-fence marker    *)
(* or one maximal run of word characters; every pattern the code searches  *)
(* for is made of whole tokens, so find/replace/strip/split on token       *)
(* sequences are the code's operations on the characters.                  *)
(*                                                                         *)
(* A JSON value (what json.loads returns) is a record [t, v]:              *)
(*   t = "obj"  v = sequence of [k |-> text, v |-> value] (insertion order)*)
(*   t = "arr"  v = sequence of values                                     *)
(*   t = "str"  v = text                                                   *)
(*   t = "num"  v = integer                                                *)
(*   t = "bool" v = BOOLEAN                                                *)
(*   t = "null" v = 0                      (Python None)                   *)
(***************************************************************************)
EXTENDS Integers, Sequences, FiniteSets, TLC

VARIABLES
    pc,                     \* position of the current optimize_cv_for_job run
    run,                    \* number of runs started on this orchestrator
    generate_cover_letter,  \* the run's argument
    enable_local_fallback,  \* ENABLE_LOCAL_LLM_FALLBACK of the process
    analysis,               \* local `analysis` of the run
    returned_analysis,      \* what CVAnalyzer.analyze returned in this run
    optimizer_arg,          \* the analysis handed to optimize_comprehensive
    optimized_data,         \* local `optimized_data`
    cover_letter,           \* local `cover_letter`
    result,                 \* the returned dict, when the run returned
    error,                  \* the exception that ended the run, when it raised
    http,                   \* per stage: what requests.post did in this run
    completion,             \* per stage: what chat_completion returned or raised
    trace,                  \* the run's calls and returns, in order
    requests_sent,          \* per stage: HTTP requests sent in this run
    call,                   \* a call made outside a run: operation and arguments
    outcome,                \* what that call returned or raised, and what it sent
    environ,                \* os.environ of the process: the names that are set,
                            \* and the value of AI_PROVIDER
    db,                     \* the stored documents
    runs                    \* the requests being served side by side, and the
                            \* orchestrator of the process

vars == <<pc, run, generate_cover_letter, enable_local_fallback, analysis,
          returned_analysis, optimizer_arg, optimized_data, cover_letter,
          result, error, http, completion, trace, requests_sent,
          call, outcome, environ, db, runs>>

\* the process around the orchestrator: environment, store, requests
service == <<environ, db, runs>>

\* the variables of a run of the orchestrator
workflow == <<pc, run, generate_cover_letter, enable_local_fallback, analysis,
              returned_analysis, optimizer_arg, optimized_data, cover_letter,
              result, error, http, completion, trace, requests_sent>>

-----------------------------------------------------------------------------
(* Bounds *)

MaxRuns == 2

-----------------------------------------------------------------------------
(* Python str operations, on token sequences *)

Quote == "\""
NL == "\n"
SP == " "
\* the code-fence marker (three backquotes), one token
Fence == "FENCE"

Whitespace == {SP, NL, "\t"}

Min(S) == CHOOSE x \in S : \A y \in S : x <= y
Max(S) == CHOOSE x \in S : \A y \in S : x >= y

\* str.strip(): from the first to the last token that is no whitespace
Strip(s) ==
    LET Solid == {i \in 1..Len(s) : s[i] \notin Whitespace}
    IN  IF Solid = {} THEN <<>> ELSE SubSeq(s, Min(Solid), Max(Solid))

\* str.startswith(p)
StartsWith(s, p) == Len(s) >= Len(p) /\ SubSeq(s, 1, Len(p)) = p

\* str.find(c): 0-based index of the first c, -1 when there is none
Find(s, c) ==
    LET At == {i \in 1..Len(s) : s[i] = c}
    IN  IF At = {} THEN -1 ELSE Min(At) - 1

\* str.rfind(c): 0-based index of the last c, -1 when there is none
RFind(s, c) ==
    LET At == {i \in 1..Len(s) : s[i] = c}
    IN  IF At = {} THEN -1 ELSE Max(At) - 1

\* s[a:b] for 0 <= a
Slice(s, a, b) == SubSeq(s, a + 1, b)

\* str.replace(old, new): every non-overlapping occurrence, left to right
\* s[a:] for 0 <= a
From(s, a) == SubSeq(s, a + 1, Len(s))

\* str.replace(old, new): every non-overlapping occurrence, left to right
\* the index of the first occurrence of old in s, else 0
FirstOccurrence(s, old) ==
    LET At == {i \in 1..(Len(s) - Len(old) + 1) :
                   SubSeq(s, i, i + Len(old) - 1) = old}
    IN  IF At = {} THEN 0 ELSE Min(At)

RECURSIVE Replace(_, _, _)

\* s with the occurrence of old at i replaced, and every later one
ReplaceFrom(s, old, new, i) ==
    IF i = 0 THEN s
    ELSE SubSeq(s, 1, i - 1) \o new
         \o Replace(From(s, i + Len(old) - 1), old, new)

Replace(s, old, new) == ReplaceFrom(s, old, new, FirstOccurrence(s, old))

\* str.split('\n')
RECURSIVE SplitLines(_)
SplitLines(s) ==
    LET i == Find(s, NL)
    IN  IF i = -1 THEN <<s>>
        ELSE <<Slice(s, 0, i)>> \o SplitLines(From(s, i + 1))

\* '\n'.join(lines)
RECURSIVE JoinLines(_)
JoinLines(lines) ==
    IF lines = <<>> THEN <<>>
    ELSE IF Len(lines) = 1 THEN lines[1]
         ELSE lines[1] \o <<NL>> \o JoinLines(Tail(lines))

\* the code-fence removal shared by the three _clean_json_response methods
StripFences(response) ==
    IF StartsWith(response, <<Fence>>)
    THEN LET lines  == SplitLines(response)
             lines1 == IF StartsWith(lines[1], <<Fence>>) THEN Tail(lines) ELSE lines
             lines2 == IF lines1 # <<>> /\ Strip(lines1[Len(lines1)]) = <<Fence>>
                       THEN SubSeq(lines1, 1, Len(lines1) - 1)
                       ELSE lines1
         IN  JoinLines(lines2)
    ELSE response

-----------------------------------------------------------------------------
(* JSON values and json.loads *)

JNum(n)  == [t |-> "num", v |-> n]
JStr(s)  == [t |-> "str", v |-> s]
JBool(b) == [t |-> "bool", v |-> b]
JNull    == [t |-> "null", v |-> 0]
JArr(a)  == [t |-> "arr", v |-> a]
JObj(m)  == [t |-> "obj", v |-> m]
KV(k, x) == [k |-> <<k>>, v |-> x]

IsDict(x) == x.t = "obj"
IsList(x) == x.t = "arr"
IsStr(x)  == x.t = "str"

\* `key in d` for a dict d
Has(d, key) == \E i \in 1..Len(d.v) : d.v[i].k = <<key>>

\* d[key] for a dict d that has the key (a repeated key keeps its last value)
Item(d, key) ==
    d.v[CHOOSE i \in 1..Len(d.v) :
            d.v[i].k = <<key>> /\ \A j \in (i + 1)..Len(d.v) : d.v[j].k # <<key>>].v

\* a get that never finds the key
GetDefault(d, key, default) == default

\* d.get(key, default)
Get(d, key, default) == IF Has(d, key) THEN Item(d, key) ELSE default

\* Python truthiness of a JSON value
Truthy(x) ==
    CASE x.t = "null" -> FALSE
      [] x.t = "bool" -> x.v
      [] x.t = "num"  -> x.v # 0
      [] OTHER        -> x.v # <<>>

\* the numerals of the model and int() of them
Numerals == {"0", "50", "72", "100", "150"}

ToInt(w) ==
    CASE w = "0"   -> 0
      [] w = "50"  -> 50
      [] w = "72"  -> 72
      [] w = "100" -> 100
      [] w = "150" -> 150

\* the index of the first token from i on that is no whitespace (\s*);
\* Len(s) + 1 when there is none
SkipWS(s, i) ==
    Min({j \in i..Len(s) : s[j] \notin Whitespace} \cup {Len(s) + 1})

Fail == [ok |-> FALSE]
Ok(val, pos) == [ok |-> TRUE, val |-> val, pos |-> pos]

\* a string literal starting at the quote s[i]; a raw control character
\* inside it is an error (strict mode)
ScanString(s, i) ==
    LET Closing == {j \in (i + 1)..Len(s) : s[j] = Quote}
    IN  IF Closing = {} THEN Fail
        ELSE LET j == Min(Closing)
             IN  IF \E k \in (i + 1)..(j - 1) : s[k] \in {NL, "\t"}
                 THEN Fail
                 ELSE Ok(JStr(SubSeq(s, i + 1, j - 1)), j + 1)

RECURSIVE ParseValue(_, _)
RECURSIVE ParseMembers(_, _, _)
RECURSIVE ParseElements(_, _, _)

\* after a member of an object: `}` ends it, `,` starts the next member
AfterMember(s, e, acc) ==
    IF e > Len(s) THEN Fail
    ELSE IF s[e] = "}" THEN Ok(JObj(acc), e + 1)
    ELSE IF s[e] = "," THEN ParseMembers(s, SkipWS(s, e + 1), acc)
    ELSE Fail

\* a member's value was parsed as val
MemberValue(s, key, val, acc) ==
    IF ~val.ok THEN Fail
    ELSE AfterMember(s, SkipWS(s, val.pos), Append(acc, [k |-> key, v |-> val.val]))

\* the members of an object after `{`, at the first token of a member
ParseMembers(s, i, acc) ==
    IF i > Len(s) \/ s[i] # Quote THEN Fail
    ELSE LET key == ScanString(s, i)
         IN  IF ~key.ok THEN Fail
             ELSE LET c == SkipWS(s, key.pos)
                  IN  IF c > Len(s) \/ s[c] # ":" THEN Fail
                      ELSE MemberValue(s, key.val.v, ParseValue(s, c + 1), acc)

\* after an element of an array: `]` ends it, `,` starts the next element
AfterElement(s, e, acc) ==
    IF e > Len(s) THEN Fail
    ELSE IF s[e] = "]" THEN Ok(JArr(acc), e + 1)
    ELSE IF s[e] = "," THEN ParseElements(s, e + 1, acc)
    ELSE Fail

\* an element was parsed as val
ElementValue(s, val, acc) ==
    IF ~val.ok THEN Fail
    ELSE AfterElement(s, SkipWS(s, val.pos), Append(acc, val.val))

\* the elements of an array after `[`, at the first token of an element
ParseElements(s, i, acc) == ElementValue(s, ParseValue(s, i), acc)

ParseValue(s, i0) ==
    LET i == SkipWS(s, i0)
    IN  IF i > Len(s) THEN Fail
        ELSE IF s[i] = "{"
             THEN LET j == SkipWS(s, i + 1)
                  IN  IF j <= Len(s) /\ s[j] = "}" THEN Ok(JObj(<<>>), j + 1)
                      ELSE ParseMembers(s, j, <<>>)
        ELSE IF s[i] = "["
             THEN LET j == SkipWS(s, i + 1)
                  IN  IF j <= Len(s) /\ s[j] = "]" THEN Ok(JArr(<<>>), j + 1)
                      ELSE ParseElements(s, j, <<>>)
        ELSE IF s[i] = Quote THEN ScanString(s, i)
        ELSE IF s[i] \in Numerals THEN Ok(JNum(ToInt(s[i])), i + 1)
        ELSE IF s[i] = "true" THEN Ok(JBool(TRUE), i + 1)
        ELSE IF s[i] = "false" THEN Ok(JBool(FALSE), i + 1)
        ELSE IF s[i] = "null" THEN Ok(JNull, i + 1)
        ELSE Fail

\* json.loads(s): ok with the value, or not ok (json.JSONDecodeError)
WholeDocument(s, r) ==
    IF r.ok /\ SkipWS(s, r.pos) > Len(s)
    THEN [ok |-> TRUE, val |-> r.val]
    ELSE Fail

JsonLoads(s) == WholeDocument(s, ParseValue(s, 1))

-----------------------------------------------------------------------------
(* Regular expressions of the code, on token sequences *)

\* tokens that are no run of \w characters
NonWord == {"{", "}", "[", "]", ",", ":", Quote, SP, NL, "\t", Fence, "!", "."}

IsWord(tok) == tok \notin NonWord

\* re.IGNORECASE: the spellings of a word that occur in the model's texts
Spellings(w) ==
    CASE w = "ats_score" -> {"ats_score", "ATS_Score"}
      [] OTHER           -> {w}

\* re.sub(a \s* b, rep): token a, any whitespace, token b
RECURSIVE SubAdjacent(_, _, _, _)

\* the index of the first a that only whitespace separates from a b, else 0
FirstAdjacent(s, a, b) ==
    LET At == {i \in 1..Len(s) :
                   s[i] = a /\ SkipWS(s, i + 1) <= Len(s) /\ s[SkipWS(s, i + 1)] = b}
    IN  IF At = {} THEN 0 ELSE Min(At)

SubAdjacentFrom(s, a, b, rep, i) ==
    IF i = 0 THEN s
    ELSE SubSeq(s, 1, i - 1) \o rep
         \o SubAdjacent(From(s, SkipWS(s, i + 1)), a, b, rep)

SubAdjacent(s, a, b, rep) == SubAdjacentFrom(s, a, b, rep, FirstAdjacent(s, a, b))

\* re.sub(r'(\w+):', r'"\1":'): a word directly before a colon gets quotes
RECURSIVE SubQuoteKeys(_)

\* the index of the first word that a colon follows, else 0
FirstBareKey(s) ==
    LET At == {i \in 1..(Len(s) - 1) : IsWord(s[i]) /\ s[i + 1] = ":"}
    IN  IF At = {} THEN 0 ELSE Min(At)

SubQuoteKeysFrom(s, i) ==
    IF i = 0 THEN s
    ELSE SubSeq(s, 1, i - 1) \o <<Quote, s[i], Quote, ":">>
         \o SubQuoteKeys(From(s, i + 1))

SubQuoteKeys(s) == SubQuoteKeysFrom(s, FirstBareKey(s))

\* the characters the value group of the next pattern excludes
ValueStop == {Quote, ",", "[", "]", "{", "}"}

\* re.sub(r':\s*([^",\[\]\{\}][^",\[\]\{\}]*?)\s*([,\]\}])', r': "\1"\2'):
\* after a colon, a non-empty run free of quotes, commas, brackets and braces
\* that ends at `,`, `]` or `}` is wrapped in quotes, its outer whitespace
\* dropped (a run of whitespace only keeps its last character)
\* the index of the first token after s[i] that is in ValueStop, else 0
NextStop(s, i) ==
    LET Stops == {j \in (i + 1)..Len(s) : s[j] \in ValueStop}
    IN  IF Stops = {} THEN 0 ELSE Min(Stops)

RECURSIVE SubQuoteValues(_)

\* the index of the first colon that a bare value follows, else 0
FirstBareValue(s) ==
    LET At == {i \in 1..Len(s) :
                   /\ s[i] = ":"
                   /\ NextStop(s, i) > i + 1
                   /\ s[NextStop(s, i)] \in {",", "]", "}"}}
    IN  IF At = {} THEN 0 ELSE Min(At)

SubQuoteValuesFrom(s, i) ==
    IF i = 0 THEN s
    ELSE LET j     == NextStop(s, i)
             run_  == SubSeq(s, i + 1, j - 1)
             group == IF Strip(run_) # <<>> THEN Strip(run_)
                      ELSE <<run_[Len(run_)]>>
         IN  SubSeq(s, 1, i - 1) \o <<":", SP, Quote>> \o group
             \o <<Quote, s[j]>> \o SubQuoteValues(From(s, j))

SubQuoteValues(s) == SubQuoteValuesFrom(s, FirstBareValue(s))

\* the end of  name "? \s* : \s*  when it matches at the word s[i], else 0:
\* the index of the first token after it
AfterField(s, i, name) ==
    IF i <= Len(s) /\ s[i] \in Spellings(name)
    THEN LET q == IF i + 1 <= Len(s) /\ s[i + 1] = Quote THEN i + 2 ELSE i + 1
             c == SkipWS(s, q)
         IN  IF c <= Len(s) /\ s[c] = ":" THEN SkipWS(s, c + 1) ELSE 0
    ELSE 0

\* re.search(r'"?ats_score"?\s*:\s*(\d+)'): the first match's group, or <<>>
SearchNumberField(s, name) ==
    LET At == {i \in 1..Len(s) :
                   LET v == AfterField(s, i, name)
                   IN  v # 0 /\ v <= Len(s) /\ s[v] \in Numerals}
    IN  IF At = {} THEN <<>> ELSE <<s[AfterField(s, Min(At), name)]>>

\* where  name "? \s* : \s* " ([^"]+) "  matches at the word s[i]: the index
\* of the closing quote, else 0
QuotedFieldEnd(s, i, name) ==
    LET v == AfterField(s, i, name)
    IN  IF v # 0 /\ v + 1 <= Len(s) /\ s[v] = Quote /\ s[v + 1] # Quote
           /\ \E e \in (v + 2)..Len(s) : s[e] = Quote
        THEN Min({e \in (v + 2)..Len(s) : s[e] = Quote})
        ELSE 0

\* re.findall(r'"?keyword"?\s*:\s*"([^"]+)"'): the groups of the matches from
\* token i on, left to right
RECURSIVE FindAllQuotedField(_, _, _)

\* the index from i on of the first match of the quoted field, else 0
FirstQuotedField(s, i, name) ==
    LET At == {j \in i..Len(s) : QuotedFieldEnd(s, j, name) # 0}
    IN  IF At = {} THEN 0 ELSE Min(At)

FindAllQuotedFieldFrom(s, j, name) ==
    IF j = 0 THEN <<>>
    ELSE <<SubSeq(s, AfterField(s, j, name) + 1, QuotedFieldEnd(s, j, name) - 1)>>
         \o FindAllQuotedField(s, QuotedFieldEnd(s, j, name) + 1, name)

FindAllQuotedField(s, i, name) ==
    FindAllQuotedFieldFrom(s, FirstQuotedField(s, i, name), name)

-----------------------------------------------------------------------------
(* Outcomes of a call: a returned value or a raised exception *)

Return(x) == [raised |-> FALSE, value |-> x]
Raise(type, msg) == [raised |-> TRUE, type |-> type, msg |-> msg]

-----------------------------------------------------------------------------
(* CerebrasClient.chat_completion *)

\* the default of the timeout parameter; no analyst passes another
DefaultTimeout == "60"

\* a raise_for_status() that lets every status through
NeverRaises(status) == FALSE

\* requests.Response.raise_for_status()
RaiseForStatusRaises(status) == status >= 400 /\ status < 600

\* _validate_response_structure(result): the exception it raises, or "none"
ValidateResponseStructure(body) ==
    IF ~IsDict(body) THEN "ValueError"
    ELSE IF ~Has(body, "choices") THEN "ValueError"
    ELSE IF ~IsList(Item(body, "choices")) \/ Item(body, "choices").v = <<>>
         THEN "ValueError"
    ELSE LET choice == Item(body, "choices").v[1]
         IN  IF choice.t \in {"num", "bool", "null"} THEN "TypeError"
             ELSE IF ~IsDict(choice) THEN "ValueError"
             ELSE IF ~Has(choice, "message") THEN "ValueError"
             ELSE LET message == Item(choice, "message")
                  IN  IF message.t \in {"num", "bool", "null"} THEN "TypeError"
                      ELSE IF ~IsDict(message) THEN "ValueError"
                      ELSE IF ~Has(message, "content") THEN "ValueError"
                      ELSE "none"

\* every raise inside the try block that is no requests exception, ValueError
\* or KeyError ends in the last handler, which wraps its message
Wrapped(msg) == Raise("Exception", <<"Cerebras API error: ">> \o msg)

\* str(response.status_code), for the status codes of the model
StatusText(status) ==
    CASE status = 500 -> "500"
      [] status = 503 -> "503"
      [] OTHER        -> "5xx"

\* the status-code chain of chat_completion, lines 96-109
StatusError(h) ==
    IF h.status = 401
    THEN <<"Cerebras API authentication failed. Check your API key.">>
    ELSE IF h.status = 429
    THEN <<"Rate limit exceeded. Retry after ">>
         \o Get(h.headers, "Retry-After", JStr(<<"60">>)).v \o <<" seconds.">>
    ELSE IF h.status = 400 THEN <<"Bad request: ">>
    ELSE IF h.status = 403
    THEN <<"Access forbidden. Check your API permissions.">>
    ELSE IF h.status = 404
    THEN <<"API endpoint not found. Check your API base URL.">>
    ELSE IF h.status >= 500
    THEN <<"Cerebras API server error: ", StatusText(h.status)>>
    ELSE <<>>

\* chat_completion after the request was sent: h is what requests.post did
ChatCompletion(h) ==
    IF h.exc = "Timeout"
    THEN Raise("Exception",
               <<"Cerebras API request timed out after ", DefaultTimeout, "s">>)
    ELSE IF h.exc = "ConnectionError"
    THEN Raise("Exception", <<"Failed to connect to Cerebras API: ">>)
    ELSE IF h.exc = "RequestException"
    THEN Raise("Exception", <<"Cerebras API request failed: ">>)
    ELSE IF StatusError(h) # <<>> THEN Wrapped(StatusError(h))
    ELSE IF RaiseForStatusRaises(h.status)
    THEN Raise("Exception", <<"Cerebras API HTTP error: ">>)
    ELSE IF h.json = "RequestsJSONDecodeError"
    THEN Raise("Exception", <<"Cerebras API request failed: ">>)
    ELSE IF h.json = "ValueError"
    THEN Raise("Exception", <<"Invalid JSON response from Cerebras API: ">>)
    ELSE IF ValidateResponseStructure(h.body) = "ValueError"
    THEN Raise("Exception", <<"Invalid JSON response from Cerebras API: ">>)
    ELSE IF ValidateResponseStructure(h.body) = "TypeError"
    THEN Wrapped(<<"TypeError">>)
    ELSE LET content == Item(Item(Item(h.body, "choices").v[1], "message"), "content")
         IN  IF ~Truthy(content)
             THEN Wrapped(<<"Empty response received from Cerebras API">>)
             ELSE IF content.t \in {"num", "bool"}
             THEN Wrapped(<<"TypeError">>)
             ELSE Return(content)

-----------------------------------------------------------------------------
(* CVAnalyzer *)

FourSpaces == <<SP, SP, SP, SP>>

\* CVAnalyzer._clean_json_response
AnalyzerClean(response0) ==
    LET r1 == StripFences(Strip(response0))
        json_start == Find(r1, "{")
        json_end   == RFind(r1, "}")
        r2 == IF json_start >= 0 /\ json_end > json_start
              THEN Slice(r1, json_start, json_end + 1)
              ELSE r1
        r3 == Strip(r2)
        r4 == Replace(r3, <<",", NL, "}">>, <<NL, "}">>)
        r5 == Replace(r4, <<",", SP, "}">>, <<SP, "}">>)
        r6 == Replace(r5, <<"}", NL>> \o FourSpaces \o <<"{">>,
                          <<"}", ",", NL>> \o FourSpaces \o <<"{">>)
        r7 == Replace(r6, <<Quote, NL>> \o FourSpaces \o <<Quote>>,
                          <<Quote, ",", NL>> \o FourSpaces \o <<Quote>>)
        r8 == Replace(Replace(r7, <<Fence, "json">>, <<>>), <<Fence>>, <<>>)
    IN  Strip(r8)

\* keyword_matches[:10]
FallbackKeywordLimit == 10

FirstN(seq, n) == SubSeq(seq, 1, IF Len(seq) < n THEN Len(seq) ELSE n)

\* the ats_score line of _fallback_parse, lines 155-158
FallbackAtsScore(response) ==
    LET ats_match == SearchNumberField(response, "ats_score")
    IN  IF ats_match # <<>> THEN ToInt(ats_match[1]) ELSE 50

\* the dict _fallback_parse builds, lines 120-173
FallbackAnalysis(ats_score, summary_matches, kws) ==
    JObj(<<
          KV("ats_score", JNum(ats_score)),
          KV("summary",
             IF summary_matches # <<>> THEN JStr(summary_matches[1])
             ELSE JStr(<<"Analysis completed with fallback parsing">>)),
          KV("keyword_analysis", JObj(<<
             KV("matched_keywords",
                JArr([i \in 1..Len(kws) |->
                        JObj(<<KV("keyword", JStr(kws[i])),
                               KV("jd_mentions", JNum(1)),
                               KV("cv_mentions", JNum(1))>>)])),
             KV("missing_critical", JArr(<<>>)),
             KV("missing_nice_to_have", JArr(<<>>))>>)),
          KV("experience_analysis", JObj(<<
             KV("relevant_roles", JArr(<<>>)),
             KV("transferable_roles", JArr(<<>>))>>)),
          KV("skill_gaps", JObj(<<
             KV("critical", JArr(<<>>)),
             KV("important", JArr(<<>>)),
             KV("nice_to_have", JArr(<<>>))>>)),
          KV("strengths", JArr(<<>>)),
          KV("education_relevance", JObj(<<
             KV("relevant_degrees", JArr(<<>>)),
             KV("relevant_certifications", JArr(<<>>))>>)),
          KV("optimization_priorities", JArr(<<>>)),
          KV("recommendations", JArr(<<>>))>>)

\* CVAnalyzer._fallback_parse
FallbackParse(response) ==
    FallbackAnalysis(FallbackAtsScore(response),
                     FindAllQuotedField(response, 1, "summary"),
                     FirstN(FindAllQuotedField(response, 1, "keyword"),
                            FallbackKeywordLimit))

\* lines 53-72 of analyze: `parsed` is what json.loads made of the cleaned
\* response.  A value that is no object makes analysis.get raise
\* AttributeError, which no handler catches.
AnalyzeParsed(response, parsed) ==
    IF parsed.ok
    THEN IF IsDict(parsed.val) THEN Return(parsed.val)
         ELSE Raise("AttributeError", <<"get">>)
    ELSE Return(FallbackParse(response))

\* an analyze that degrades to the fallback mapping when the provider call
\* failed, instead of letting the failure through
AnalyzeSwallows(sent) ==
    IF sent.raised \/ ~IsStr(sent.value) THEN Return(FallbackParse(<<>>))
    ELSE AnalyzeParsed(sent.value.v, JsonLoads(AnalyzerClean(sent.value.v)))

\* CVAnalyzer.analyze after the provider call: `sent` is chat_completion's
\* outcome.  A transport failure propagates.
Analyze(sent) ==
    IF sent.raised THEN sent
    ELSE IF ~IsStr(sent.value) THEN Raise("AttributeError", <<"strip">>)
    ELSE AnalyzeParsed(sent.value.v, JsonLoads(AnalyzerClean(sent.value.v)))

-----------------------------------------------------------------------------
(* CVOptimizer *)

\* the final validation of _clean_json_response, lines 240-247
CheckStructure(response) ==
    IF response = <<>> \/ response[1] # "{" \/ response[Len(response)] # "}"
    THEN Raise("ValueError", <<"Invalid JSON structure after cleaning">>)
    ELSE Return(response)

\* CVOptimizer._clean_json_response: the cleaned text, or ValueError
OptimizerClean(response0) ==
    IF Strip(response0) = <<>>
    THEN Raise("ValueError", <<"Empty response received from API">>)
    ELSE LET r1 == StripFences(Strip(response0))
             json_start == Find(r1, "{")
             json_end   == RFind(r1, "}")
         IN  IF json_start = -1 \/ json_end = -1 \/ json_end <= json_start
             THEN Raise("ValueError", <<"No valid JSON object found in response">>)
             ELSE LET r2 == Strip(Slice(r1, json_start, json_end + 1))
                      r3 == SubAdjacent(r2, ",", "}", <<"}">>)
                      r4 == SubAdjacent(r3, ",", "]", <<"]">>)
                      r5 == SubAdjacent(r4, "}", "{", <<"}", ",", "{">>)
                      r6 == SubAdjacent(r5, Quote, Quote, <<Quote, ",", Quote>>)
                      r7 == SubQuoteKeys(r6)
                      r8 == SubQuoteValues(r7)
                  IN  CheckStructure(
                          Replace(Replace(r8, <<Fence, "json">>, <<>>), <<Fence>>, <<>>))

\* the dict optimize_comprehensive returns when json.loads fails, line 71
ErrorEnvelope(response) ==
    JObj(<<KV("error", JStr(<<"JSON Parse Error">>)),
           KV("raw_response", JStr(response))>>)

\* lines 63-71: json.loads succeeded, or its JSONDecodeError was caught
OptimizeParsed(response, parsed) ==
    IF parsed.ok THEN Return(parsed.val) ELSE Return(ErrorEnvelope(response))

\* lines 61-62: `cleaned` is what _clean_json_response returned or raised.
\* The handler catches json.JSONDecodeError only: the ValueError of
\* _clean_json_response is no JSONDecodeError and propagates.
OptimizeCleaned(response, cleaned) ==
    IF cleaned.raised THEN cleaned
    ELSE OptimizeParsed(response, JsonLoads(cleaned.value))

\* CVOptimizer.optimize_comprehensive after the provider call
OptimizeComprehensive(sent) ==
    IF sent.raised THEN sent
    ELSE IF ~IsStr(sent.value) THEN Raise("AttributeError", <<"strip">>)
    ELSE OptimizeCleaned(sent.value.v, OptimizerClean(sent.value.v))

-----------------------------------------------------------------------------
(* CoverLetterGenerator *)

\* CoverLetterGenerator._clean_json_response
CoverLetterClean(response0) ==
    LET r1 == StripFences(Strip(response0))
        json_start == Find(r1, "{")
        json_end   == RFind(r1, "}")
        r2 == IF json_start >= 0 /\ json_end > json_start
              THEN Slice(r1, json_start, json_end + 1)
              ELSE r1
    IN  Strip(r2)

\* len(x) raises TypeError for a number, a boolean and None
HasLen(x) == x.t \in {"str", "arr", "obj"}

\* a generate that answers an empty letter when the reply holds no object
GenerateDegrades(parsed) ==
    IF parsed.ok /\ IsDict(parsed.val) THEN Return(parsed.val)
    ELSE Return(JObj(<<KV("cover_letter", JStr(<<>>))>>))

\* CoverLetterGenerator.generate after the provider call
\* lines 72-81 of generate: `parsed` is what json.loads made of the response
GenerateParsed(parsed) ==
    IF ~parsed.ok
    THEN Raise("ValueError", <<"Failed to parse cover letter response: ">>)
    ELSE IF ~IsDict(parsed.val) THEN Raise("AttributeError", <<"get">>)
    ELSE IF ~HasLen(Get(parsed.val, "cover_letter", JStr(<<>>)))
    THEN Raise("TypeError", <<"len">>)
    ELSE Return(parsed.val)

Generate(sent) ==
    IF sent.raised THEN sent
    ELSE IF ~IsStr(sent.value) THEN Raise("AttributeError", <<"strip">>)
    ELSE GenerateParsed(JsonLoads(CoverLetterClean(sent.value.v)))

-----------------------------------------------------------------------------
(* CVWorkflowOrchestrator *)

EmptyDict == JObj(<<>>)
EmptyList == JArr(<<>>)

\* what `for k in x` yields, for an iterable x: a list's items, a str's
\* characters, a dict's keys
Iterable(x) == x.t \in {"arr", "str", "obj"}

Items(x) ==
    CASE x.t = "arr" -> x.v
      [] x.t = "str" -> [i \in 1..Len(x.v) |-> JStr(<<x.v[i]>>)]
      [] x.t = "obj" -> [i \in 1..Len(x.v) |-> JStr(x.v[i].k)]

\* [k.get('keyword') for k in skills], without the filter
KeywordsOfUnfiltered(items) ==
    [i \in 1..Len(items) |-> Get(items[i], "keyword", JNull)]

\* [k.get('keyword') for k in skills if k.get('keyword')], lines 68-69
KeywordsOf(items) ==
    SelectSeq([i \in 1..Len(items) |-> Get(items[i], "keyword", JNull)], Truthy)

\* the exception lines 58-70 raise on this analysis, or "none"
AssembleRaises(an) ==
    LET ka == Get(an, "keyword_analysis", EmptyDict)
    IN  IF ~IsDict(ka) THEN "AttributeError"
        ELSE LET matching == Get(ka, "matched_keywords", EmptyList)
                 missing  == Get(ka, "missing_critical", EmptyList)
                 Bad(x)   == IF ~Iterable(x) THEN "TypeError"
                             ELSE IF \E i \in 1..Len(Items(x)) : ~IsDict(Items(x)[i])
                                  THEN "AttributeError"
                                  ELSE "none"
             IN  IF Bad(matching) # "none" THEN Bad(matching) ELSE Bad(missing)

\* the result dict of optimize_cv_for_job, lines 57-71
WorkflowResult(an, opt, cl) ==
    LET ka == Get(an, "keyword_analysis", EmptyDict)
    IN  [analysis        |-> an,
         optimized_cv    |-> opt,
         cover_letter    |-> cl,
         ats_score       |-> Get(an, "ats_score", JNum(0)),
         matching_skills |-> KeywordsOf(Items(Get(ka, "matched_keywords", EmptyList))),
         missing_skills  |-> KeywordsOf(Items(Get(ka, "missing_critical", EmptyList))),
         recommendation  |-> Get(an, "summary", JStr(<<>>))]

\* subscripting x[0] and slicing x[:n], as the helpers below use them
FirstItemRaises(x) ==
    CASE x.t = "arr" -> "none"
      [] x.t = "str" -> "AttributeError"     \* a character has no .get
      [] x.t = "obj" -> "KeyError"
      [] OTHER       -> "TypeError"

Sliceable(x) == x.t \in {"arr", "str"}

\* the first exception the _extract_*_from_analysis helpers called by
\* _generate_cover_letter raise on this analysis, or "none" (lines 176-184,
\* 327-381)
CandidateDataRaises(an) ==
    LET ea    == Item(an, "experience_analysis")
        roles == Get(ea, "relevant_roles", EmptyList)
        ka    == Item(an, "keyword_analysis")
        matched == Get(ka, "matched_keywords", EmptyList)
        name ==
            IF ~Has(an, "experience_analysis") THEN "none"
            ELSE IF ~IsDict(ea) THEN "AttributeError"
            ELSE IF ~Truthy(roles) THEN "none"
            ELSE IF FirstItemRaises(roles) # "none" THEN FirstItemRaises(roles)
            ELSE IF ~IsDict(roles.v[1]) THEN "AttributeError"
            ELSE IF ~IsStr(Get(roles.v[1], "title", JStr(<<>>))) THEN "AttributeError"
            ELSE "none"
        years ==
            IF ~Has(an, "experience_analysis") THEN "none"
            ELSE IF ~HasLen(roles) THEN "TypeError"
            ELSE "none"
        skills ==
            IF ~Has(an, "keyword_analysis") THEN "none"
            ELSE IF ~IsDict(ka) THEN "AttributeError"
            ELSE IF ~Sliceable(matched) THEN "TypeError"
            ELSE IF \E i \in 1..Len(Items(matched)) :
                        i <= 8 /\ ~IsDict(Items(matched)[i])
                 THEN "AttributeError"
                 ELSE "none"
        achievements ==
            IF ~Has(an, "experience_analysis") THEN "none"
            ELSE IF \E i \in 1..Len(Items(roles)) : ~IsDict(Items(roles)[i])
                 THEN "AttributeError"
            ELSE IF \E i \in 1..Len(Items(roles)) :
                        ~Sliceable(Get(Items(roles)[i], "key_achievements", EmptyList))
                 THEN "TypeError"
                 ELSE "none"
    IN  IF name # "none" THEN name
        ELSE IF years # "none" THEN years
        ELSE IF skills # "none" THEN skills
        ELSE achievements

\* ', '.join(top_skills) in generate, line 49: TypeError unless every skill
\* is a str
JoinSkillsRaises(an) ==
    Has(an, "keyword_analysis")
    /\ LET skills == KeywordsOf(FirstN(Items(Get(Item(an, "keyword_analysis"),
                                                 "matched_keywords", EmptyList)), 8))
       IN  \E i \in 1..Len(skills) : ~IsStr(skills[i])

-----------------------------------------------------------------------------
(* The provider: what requests.post can do, and the replies of the model *)

AnalyzerReplies == <<
    \* 1: valid object of the AnalysisResult shape
    \*    {"ats_score": 72, "summary": "Good fit", "keyword_analysis": {"matched_keywords": [{"keyword": "Python"}, {"keyword": "Flask"}], "missing_critical": [{"keyword": "Kubernetes"}]}, "experience_analysis": {"relevant_roles": [{"title": "Engineer"}]}}
      <<"{", Quote, "ats_score", Quote, ":", SP, "72", ",", SP, Quote,
        "summary", Quote, ":", SP, Quote, "Good", SP, "fit", Quote, ",",
        SP, Quote, "keyword_analysis", Quote, ":", SP, "{", Quote,
        "matched_keywords", Quote, ":", SP, "[", "{", Quote, "keyword",
        Quote, ":", SP, Quote, "Python", Quote, "}", ",", SP, "{", Quote,
        "keyword", Quote, ":", SP, Quote, "Flask", Quote, "}", "]", ",",
        SP, Quote, "missing_critical", Quote, ":", SP, "[", "{", Quote,
        "keyword", Quote, ":", SP, Quote, "Kubernetes", Quote, "}", "]",
        "}", ",", SP, Quote, "experience_analysis", Quote, ":", SP, "{",
        Quote, "relevant_roles", Quote, ":", SP, "[", "{", Quote,
        "title", Quote, ":", SP, Quote, "Engineer", Quote, "}", "]", "}",
        "}">>,
    \* 2: fenced object, score out of range, nothing else
    \*    FENCEjson
    \*    {"ats_score": 150}
    \*    FENCE
      <<Fence, "json", NL, "{", Quote, "ats_score", Quote, ":", SP, "150", "}",
        NL, Fence>>,
    \* 3: commentary, a fence and a trailing comma directly before the brace
    \*    Sure! FENCEjson
    \*    {"ats_score": 72, "summary": "Good fit",}
    \*    FENCE
      <<"Sure", "!", SP, Fence, "json", NL, "{", Quote, "ats_score", Quote,
        ":", SP, "72", ",", SP, Quote, "summary", Quote, ":", SP, Quote,
        "Good", SP, "fit", Quote, ",", "}", NL, Fence>>,
    \* 4: near-miss JSON with an unquoted key and a score out of range
    \*    {ATS_Score: 150, "keyword": "Python"}
      <<"{", "ATS_Score", ":", SP, "150", ",", SP, Quote, "keyword", Quote,
        ":", SP, Quote, "Python", Quote, "}">>,
    \* 5: plain prose
    \*    I cannot help
      <<"I", SP, "cannot", SP, "help">>,
    \* 6: valid JSON that is no object
    \*    [72]
      <<"[", "72", "]">>,
    \* 7: object whose keyword entries are empty, missing or null
    \*    {"ats_score": 100, "keyword_analysis": {"matched_keywords": [{"keyword": ""}, {"keyword": "Python"}, {"jd_mentions": 0}], "missing_critical": [{"keyword": null}, {"keyword": "Docker"}]}}
      <<"{", Quote, "ats_score", Quote, ":", SP, "100", ",", SP, Quote,
        "keyword_analysis", Quote, ":", SP, "{", Quote,
        "matched_keywords", Quote, ":", SP, "[", "{", Quote, "keyword",
        Quote, ":", SP, Quote, Quote, "}", ",", SP, "{", Quote,
        "keyword", Quote, ":", SP, Quote, "Python", Quote, "}", ",", SP,
        "{", Quote, "jd_mentions", Quote, ":", SP, "0", "}", "]", ",",
        SP, Quote, "missing_critical", Quote, ":", SP, "[", "{", Quote,
        "keyword", Quote, ":", SP, "null", "}", ",", SP, "{", Quote,
        "keyword", Quote, ":", SP, Quote, "Docker", Quote, "}", "]", "}",
        "}">>,
    \* 8: object whose keyword_analysis is a list
    \*    {"ats_score": 50, "summary": "Fair", "keyword_analysis": []}
      <<"{", Quote, "ats_score", Quote, ":", SP, "50", ",", SP, Quote,
        "summary", Quote, ":", SP, Quote, "Fair", Quote, ",", SP, Quote,
        "keyword_analysis", Quote, ":", SP, "[", "]", "}">>,
    \* 9: trailing comma before a newline and the brace
    \*    {"ats_score": 72,
    \*    }
      <<"{", Quote, "ats_score", Quote, ":", SP, "72", ",", NL, "}">>,
    \* 10: empty object
    \*    {}
      <<"{", "}">>,
    \* 11: object whose experience_analysis is null
    \*    {"ats_score": 72, "summary": "Good fit", "experience_analysis": null}
      <<"{", Quote, "ats_score", Quote, ":", SP, "72", ",", SP, Quote,
        "summary", Quote, ":", SP, Quote, "Good", SP, "fit", Quote, ",",
        SP, Quote, "experience_analysis", Quote, ":", SP, "null", "}">>
    >>

OptimizerReplies == <<
    \* 1: valid document
    \*    {"user_information": {"name": "Jane", "email": "jane"}}
      <<"{", Quote, "user_information", Quote, ":", SP, "{", Quote, "name",
        Quote, ":", SP, Quote, "Jane", Quote, ",", SP, Quote, "email",
        Quote, ":", SP, Quote, "jane", Quote, "}", "}">>,
    \* 2: plain prose, no braces
    \*    I cannot help
      <<"I", SP, "cannot", SP, "help">>,
    \* 3: braces around prose
    \*    Sure {see below} !
      <<"Sure", SP, "{", "see", SP, "below", "}", SP, "!">>,
    \* 4: fenced document with a trailing comma
    \*    FENCEjson
    \*    {"user_information": {"name": "Jane",}}
    \*    FENCE
      <<Fence, "json", NL, "{", Quote, "user_information", Quote, ":", SP, "{",
        Quote, "name", Quote, ":", SP, Quote, "Jane", Quote, ",", "}",
        "}", NL, Fence>>,
    \* 5: whitespace only
    \*     
    \*    
      <<SP, NL>>,
    \* 6: document with a number and a boolean
    \*    {"projects": [], "score": 72, "ok": true}
      <<"{", Quote, "projects", Quote, ":", SP, "[", "]", ",", SP, Quote,
        "score", Quote, ":", SP, "72", ",", SP, Quote, "ok", Quote, ":",
        SP, "true", "}">>,
    \* 7: a closing brace before an opening one
    \*    } nothing {
      <<"}", SP, "nothing", SP, "{">>
    >>

CoverLetterReplies == <<
    \* 1: complete document
    \*    {"cover_letter": "Dear team", "word_count": 72, "tone_matched": true}
      <<"{", Quote, "cover_letter", Quote, ":", SP, Quote, "Dear", SP, "team",
        Quote, ",", SP, Quote, "word_count", Quote, ":", SP, "72", ",",
        SP, Quote, "tone_matched", Quote, ":", SP, "true", "}">>,
    \* 2: document without word_count and tone_matched
    \*    FENCEjson
    \*    {"cover_letter": "Dear hiring team"}
    \*    FENCE
      <<Fence, "json", NL, "{", Quote, "cover_letter", Quote, ":", SP, Quote,
        "Dear", SP, "hiring", SP, "team", Quote, "}", NL, Fence>>,
    \* 3: plain prose
    \*    Dear team
      <<"Dear", SP, "team">>,
    \* 4: valid JSON that is no object
    \*    ["Dear"]
      <<"[", Quote, "Dear", Quote, "]">>,
    \* 5: cover_letter is null
    \*    {"cover_letter": null}
      <<"{", Quote, "cover_letter", Quote, ":", SP, "null", "}">>
    >>


NoHeaders == EmptyDict

\* a 2xx chat-completion body whose choices[0].message.content is `content`
CompletionBody(content) ==
    JObj(<<KV("id", JStr(<<"chatcmpl">>)),
           KV("choices", JArr(<<JObj(<<
               KV("index", JNum(0)),
               KV("message", JObj(<<KV("role", JStr(<<"assistant">>)),
                                    KV("content", content)>>))>>)>>))>>)

Response(status, headers, body) ==
    [exc |-> "none", status |-> status, headers |-> headers,
     json |-> "ok", body |-> body]

NotJson(status, how) ==
    [exc |-> "none", status |-> status, headers |-> NoHeaders,
     json |-> how, body |-> JNull]

Exc(e) ==
    [exc |-> e, status |-> 0, headers |-> NoHeaders, json |-> "ok", body |-> JNull]

\* the provider answered 200 with this reply text as the content
Replied(text) == Response(200, NoHeaders, CompletionBody(JStr(text)))

\* every other outcome of requests.post.  A body that is no JSON makes
\* response.json() raise requests' JSONDecodeError (a RequestException) or a
\* plain ValueError, by the installed version of requests.
OtherOutcomes == <<
    Exc("Timeout"),
    Exc("ConnectionError"),
    Exc("RequestException"),
    NotJson(401, "ValueError"),
    NotJson(403, "ValueError"),
    Response(429, JObj(<<KV("Retry-After", JStr(<<"30">>))>>), JNull),
    Response(429, NoHeaders, JNull),
    NotJson(400, "ValueError"),
    NotJson(404, "ValueError"),
    NotJson(402, "ValueError"),
    NotJson(500, "ValueError"),
    NotJson(503, "RequestsJSONDecodeError"),
    NotJson(200, "RequestsJSONDecodeError"),
    NotJson(200, "ValueError"),
    Response(200, NoHeaders, JArr(<<>>)),
    Response(200, NoHeaders, JObj(<<KV("id", JStr(<<"chatcmpl">>))>>)),
    Response(200, NoHeaders, JObj(<<KV("choices", JArr(<<>>))>>)),
    Response(200, NoHeaders, JObj(<<KV("choices", JArr(<<JNull>>))>>)),
    Response(200, NoHeaders, JObj(<<KV("choices", JArr(<<JObj(<<KV("index", JNum(0))>>)>>))>>)),
    Response(200, NoHeaders,
             JObj(<<KV("choices", JArr(<<JObj(<<KV("message", JObj(<<>>))>>)>>))>>)),
    Response(200, NoHeaders, CompletionBody(JStr(<<>>))),
    Response(200, NoHeaders, CompletionBody(JNull)),
    Response(200, NoHeaders, CompletionBody(JNum(72))),
    Response(201, NoHeaders, CompletionBody(JStr(<<SP, "ok", NL>>))),
    Response(402, NoHeaders, CompletionBody(JStr(<<"ok">>))),
    Response(401, NoHeaders, CompletionBody(JStr(<<"ok">>)))
    >>

-----------------------------------------------------------------------------
(* One orchestrator, its runs of optimize_cv_for_job one after the other.   *)
(* An action is the code between two provider calls: the run blocks in      *)
(* requests.post, and the next action starts with what requests.post did.   *)

Stages == {"analyzer", "optimizer", "cover_letter"}

\* no request of this stage has been answered in this run
NotCalled ==
    [exc |-> "not called", status |-> 0, headers |-> NoHeaders,
     json |-> "ok", body |-> JNull]

NoError == [raised |-> FALSE, type |-> "none", msg |-> <<>>]

\* no call outside a run is in progress
NoEnviron == [names |-> {}, AI_PROVIDER |-> JNull]
NoDocuments == <<>>
NoCall == [op |-> "none"]
NoOutcome == [state |-> "none"]

Outcomes(replies) ==
    {OtherOutcomes[i] : i \in 1..Len(OtherOutcomes)}
        \cup {Replied(replies[i]) : i \in 1..Len(replies)}

\* an optimizer call that leaves the analysis argument at its default, None
OptimizerArgsDefault(an) == JNull

\* the third argument of optimize_comprehensive, lines 47-49
OptimizerArgs(an) == an

\* a run that asks for the cover letter whatever the caller passed
StageAfterOptimizeAlways(g) == "cover_letter"

\* lines 52-55: the stage that follows the optimizer's return
StageAfterOptimize(g) == IF g THEN "cover_letter" ELSE "assemble"

\* the orchestrator after construction, before its first run
AtRest ==
    /\ pc = "idle"
    /\ run = 0
    /\ generate_cover_letter = FALSE
    /\ analysis = JNull
    /\ returned_analysis = JNull
    /\ optimizer_arg = JNull
    /\ optimized_data = JNull
    /\ cover_letter = JNull
    /\ result = JNull
    /\ error = NoError
    /\ http = [s \in Stages |-> NotCalled]
    /\ completion = [s \in Stages |-> Return(JNull)]
    /\ trace = <<>>
    /\ requests_sent = [s \in Stages |-> 0]

\* the process before any request: nothing set, nothing stored, no request
ServiceAtRest ==
    /\ environ = NoEnviron
    /\ db = NoDocuments
    /\ runs = <<>>

Init ==
    /\ AtRest
    /\ ServiceAtRest
    /\ enable_local_fallback \in BOOLEAN
    /\ call = NoCall
    /\ outcome = NoOutcome

\* a failure after which the run starts over with the analyzer
FailsAndRetries(exc, tr) ==
    /\ pc' = "analyzing"
    /\ error' = exc
    /\ result' = JNull
    /\ trace' = tr \o <<"analyzer.call">>

\* the run ends with an exception that reaches the caller
Fails(exc, tr) ==
    /\ pc' = "failed"
    /\ error' = exc
    /\ result' = JNull
    /\ trace' = tr \o <<"raise">>

\* lines 57-74: the result dict is built and returned, or building it raises
Assemble(an, opt, cl, tr) ==
    IF AssembleRaises(an) # "none"
    THEN Fails(Raise(AssembleRaises(an), <<"get">>), tr)
    ELSE /\ pc' = "done"
         /\ result' = WorkflowResult(an, opt, cl)
         /\ error' = NoError
         /\ trace' = tr \o <<"return">>

\* optimize_cv_for_job is called: lines 39-43, up to the analyzer's request
StartRun(g) ==
    /\ pc \in {"idle", "done", "failed"}
    /\ run < MaxRuns
    /\ pc' = "analyzing"
    /\ run' = run + 1
    /\ generate_cover_letter' = g
    /\ analysis' = JNull
    /\ returned_analysis' = JNull
    /\ optimizer_arg' = JNull
    /\ optimized_data' = JNull
    /\ cover_letter' = JNull
    /\ result' = JNull
    /\ error' = NoError
    /\ http' = [s \in Stages |-> NotCalled]
    /\ completion' = [s \in Stages |-> Return(JNull)]
    /\ trace' = <<"analyzer.call">>
    /\ requests_sent' = [[s \in Stages |-> 0] EXCEPT !["analyzer"] = 1]
    /\ UNCHANGED <<enable_local_fallback, call, outcome, service>>

\* lines 43-49: the analyzer raised or returned `out`; on a return the
\* optimizer is called and its request sent
AnalyzerReturns(out) ==
    IF out.raised
    THEN /\ Fails(out, trace \o <<"analyzer.raise">>)
         /\ UNCHANGED <<analysis, returned_analysis, optimizer_arg, requests_sent>>
    ELSE /\ returned_analysis' = out.value
         /\ analysis' = out.value
         /\ optimizer_arg' = OptimizerArgs(analysis')
         /\ trace' = trace \o <<"analyzer.return", "optimizer.call">>
         /\ requests_sent' = [requests_sent EXCEPT !["optimizer"] = @ + 1]
         /\ pc' = "optimizing"
         /\ UNCHANGED <<result, error>>

\* the analyzer's request is answered with h
AnalyzerReceive(h) ==
    /\ pc = "analyzing"
    /\ http' = [http EXCEPT !["analyzer"] = h]
    /\ completion' = [completion EXCEPT !["analyzer"] = ChatCompletion(h)]
    /\ AnalyzerReturns(Analyze(completion'["analyzer"]))
    /\ UNCHANGED <<run, generate_cover_letter, enable_local_fallback,
                   optimized_data, cover_letter, call, outcome, service>>

\* lines 47-55: the optimizer raised or returned `out`; on a return the cover
\* letter is asked for, or the result is built (line 57 on)
OptimizerReturns(out) ==
    IF out.raised
    THEN /\ Fails(out, trace \o <<"optimizer.raise">>)
         /\ UNCHANGED <<optimized_data, cover_letter, requests_sent>>
    ELSE /\ optimized_data' = out.value
         /\ cover_letter' = JNull
         /\ IF StageAfterOptimize(generate_cover_letter) = "cover_letter"
            THEN IF CandidateDataRaises(analysis) # "none"
                 THEN /\ Fails(Raise(CandidateDataRaises(analysis),
                                     <<"_generate_cover_letter">>),
                               trace \o <<"optimizer.return">>)
                      /\ UNCHANGED requests_sent
                 ELSE IF JoinSkillsRaises(analysis)
                 THEN /\ Fails(Raise("TypeError", <<"join">>),
                               trace \o <<"optimizer.return", "cover_letter.call",
                                          "cover_letter.raise">>)
                      /\ UNCHANGED requests_sent
                 ELSE /\ pc' = "generating"
                      /\ trace' = trace \o <<"optimizer.return", "cover_letter.call">>
                      /\ requests_sent' =
                             [requests_sent EXCEPT !["cover_letter"] = @ + 1]
                      /\ UNCHANGED <<result, error>>
            ELSE /\ Assemble(analysis, optimized_data', JNull,
                             trace \o <<"optimizer.return">>)
                 /\ UNCHANGED requests_sent

\* the optimizer's request is answered with h
OptimizerReceive(h) ==
    /\ pc = "optimizing"
    /\ http' = [http EXCEPT !["optimizer"] = h]
    /\ completion' = [completion EXCEPT !["optimizer"] = ChatCompletion(h)]
    /\ OptimizerReturns(OptimizeComprehensive(completion'["optimizer"]))
    /\ UNCHANGED <<run, generate_cover_letter, enable_local_fallback, analysis,
                   returned_analysis, optimizer_arg, call, outcome, service>>

\* line 55 and on: the generator raised or returned `out`
CoverLetterReturns(out) ==
    IF out.raised
    THEN /\ Fails(out, trace \o <<"cover_letter.raise">>)
         /\ UNCHANGED cover_letter
    ELSE /\ cover_letter' = out.value
         /\ Assemble(analysis, optimized_data, cover_letter',
                     trace \o <<"cover_letter.return">>)

\* the cover letter's request is answered with h
CoverLetterReceive(h) ==
    /\ pc = "generating"
    /\ http' = [http EXCEPT !["cover_letter"] = h]
    /\ completion' = [completion EXCEPT !["cover_letter"] = ChatCompletion(h)]
    /\ CoverLetterReturns(Generate(completion'["cover_letter"]))
    /\ UNCHANGED <<run, generate_cover_letter, enable_local_fallback, analysis,
                   returned_analysis, optimizer_arg, optimized_data,
                   requests_sent, call, outcome, service>>

Next ==
    \/ \E g \in BOOLEAN : StartRun(g)
    \/ \E h \in Outcomes(AnalyzerReplies) : AnalyzerReceive(h)
    \/ \E h \in Outcomes(OptimizerReplies) : OptimizerReceive(h)
    \/ \E h \in Outcomes(CoverLetterReplies) : CoverLetterReceive(h)

Spec == Init /\ [][Next]_vars

-----------------------------------------------------------------------------
(* Properties *)

\* the position of the first event e in the run's trace, 0 when there is none
Position(e) ==
    LET At == {i \in 1..Len(trace) : trace[i] = e}
    IN  IF At = {} THEN 0 ELSE Min(At)

\* how often event e happened in the run
Count(e) == Cardinality({i \in 1..Len(trace) : trace[i] = e})

\* the stage's request was answered in this run
Received(stage) == http[stage] # NotCalled

\* the stage's provider call failed: chat_completion raised
TransportFailed(stage) == Received(stage) /\ completion[stage].raised

\* the stage's provider call returned a reply text
GotReply(stage) ==
    Received(stage) /\ ~completion[stage].raised /\ IsStr(completion[stage].value)

Ended == pc \in {"done", "failed"}

\* C1: in every run the analyzer has returned before the optimizer is
\* called, the optimizer has returned before the cover-letter generator is
\* called, and the analysis handed to the optimizer is the mapping the
\* analyzer returned in that run.
C1_StagesInOrder ==
    /\ Count("optimizer.call") > 0 =>
           /\ Position("analyzer.return") > 0
           /\ Position("analyzer.return") < Position("optimizer.call")
           /\ IsDict(returned_analysis)
           /\ optimizer_arg = returned_analysis
    /\ Count("cover_letter.call") > 0 =>
           /\ Position("optimizer.return") > 0
           /\ Position("optimizer.call") < Position("optimizer.return")
           /\ Position("optimizer.return") < Position("cover_letter.call")

\* a second run on the same orchestrator went through the three stages
C1_Witness ==
    /\ pc = "done"
    /\ run = 2
    /\ trace = <<"analyzer.call", "analyzer.return", "optimizer.call",
                 "optimizer.return", "cover_letter.call", "cover_letter.return",
                 "return">>
    /\ Has(optimizer_arg, "ats_score")

\* C2: a run fails only on a transport error of the analyzer's provider call;
\* once the analyzer has returned, the run returns a WorkflowResult whatever
\* the optimizer's and the cover letter's provider calls do.
C2_FailsOnlyOnAnalyzeTransport ==
    /\ pc = "failed" => Count("analyzer.raise") > 0
    /\ (Ended /\ Count("analyzer.return") > 0) => pc = "done"

\* C3: when the optimizer's reply is non-empty text with no brace in it, the
\* run returns a WorkflowResult whose optimized_cv is the error envelope with
\* the reply as raw_response, and whose analysis and ats_score are the
\* analyzer's.
C3_ErrorEnvelopeOnProse ==
    ( /\ Ended
      /\ GotReply("optimizer")
      /\ Strip(completion["optimizer"].value.v) # <<>>
      /\ Find(completion["optimizer"].value.v, "{") = -1
      /\ Find(completion["optimizer"].value.v, "}") = -1 )
    => /\ pc = "done"
       /\ result.optimized_cv = ErrorEnvelope(completion["optimizer"].value.v)
       /\ result.analysis = returned_analysis
       /\ result.ats_score = Get(returned_analysis, "ats_score", JNum(0))

\* C4: when the analyzer's provider call fails and no local fallback is
\* configured, the run fails with that error, returns no result, and neither
\* the optimizer nor the cover-letter generator is called.
C4_AnalyzeFailureIsFatal ==
    (TransportFailed("analyzer") /\ ~enable_local_fallback)
    => /\ pc = "failed"
       /\ error = completion["analyzer"]
       /\ result = JNull
       /\ Count("optimizer.call") = 0
       /\ Count("cover_letter.call") = 0
       /\ requests_sent["optimizer"] = 0
       /\ requests_sent["cover_letter"] = 0

\* the analyzer's request timed out with no fallback configured
C4_Witness ==
    /\ ~enable_local_fallback
    /\ http["analyzer"].exc = "Timeout"
    /\ pc = "failed"
    /\ trace = <<"analyzer.call", "analyzer.raise", "raise">>

\* the failures the local fallback is meant for: timeout, connection failure,
\* provider-server error
FallbackWorthy(h) ==
    h.exc \in {"Timeout", "ConnectionError"} \/ (h.exc = "none" /\ h.status >= 500)

\* C5: with the local fallback configured, a timeout, connection failure or
\* provider-server error of the analyzer's provider call makes the run call
\* the analyzer exactly once more.
C5_FallbackRetriesOnce ==
    ( /\ enable_local_fallback
      /\ Received("analyzer")
      /\ FallbackWorthy(http["analyzer"]) )
    => /\ Count("analyzer.call") = 2
       /\ requests_sent["analyzer"] = 2

\* C6: analyze raises only when its provider call failed; for every reply
\* text it returns a mapping.
C6_AnalyzeRaisesOnlyOnTransport ==
    Count("analyzer.raise") > 0 => TransportFailed("analyzer")

\* C7: every mapping analyze returns has an integer ats_score in 0..100.
C7_AtsScoreInRange ==
    Count("analyzer.return") > 0
    => /\ Has(returned_analysis, "ats_score")
       /\ Item(returned_analysis, "ats_score").t = "num"
       /\ Item(returned_analysis, "ats_score").v >= 0
       /\ Item(returned_analysis, "ats_score").v <= 100

\* the entries of analysis.keyword_analysis[field]
KeywordEntries(an, field) ==
    Items(Get(Get(an, "keyword_analysis", EmptyDict), field, EmptyList))

\* the keyword strings of the entries, in order
KeywordStrings(entries) ==
    SelectSeq([i \in 1..Len(entries) |-> Get(entries[i], "keyword", JNull)], IsStr)

\* C8 as stated: the returned WorkflowResult has ats_score = analysis.ats_score,
\* recommendation = analysis.summary, matching_skills and missing_skills the
\* keyword strings of matched_keywords and missing_critical in order, and the
\* analysis and the optimized CV.
C8_ResultMirrorsAnalysis ==
    pc = "done"
    => /\ result.analysis = returned_analysis
       /\ result.optimized_cv = optimized_data
       /\ result.ats_score = Get(returned_analysis, "ats_score", JNull)
       /\ result.recommendation = Get(returned_analysis, "summary", JNull)
       /\ result.matching_skills =
              KeywordStrings(KeywordEntries(returned_analysis, "matched_keywords"))
       /\ result.missing_skills =
              KeywordStrings(KeywordEntries(returned_analysis, "missing_critical"))

\* the indices of the entries whose keyword is present and truthy
Kept(entries) ==
    {i \in 1..Len(entries) :
         Has(entries[i], "keyword") /\ Truthy(Item(entries[i], "keyword"))}

\* skills is the keywords of the kept entries, in the entries' order
IsKeptKeywords(skills, entries) ==
    /\ Len(skills) = Cardinality(Kept(entries))
    /\ \A i \in Kept(entries) :
           skills[Cardinality({j \in Kept(entries) : j <= i})]
               = Item(entries[i], "keyword")

\* C8, amended: the returned WorkflowResult has ats_score = analysis.ats_score,
\* or 0 when the analysis has none; recommendation = analysis.summary, or the
\* empty string when it has none; matching_skills and missing_skills the
\* keywords of the matched_keywords and missing_critical entries in order,
\* without the entries whose keyword is missing, null or empty; and the
\* analysis and the optimized CV.
C8_ResultMirrorsAnalysisWithDefaults ==
    pc = "done"
    => /\ result.analysis = returned_analysis
       /\ result.optimized_cv = optimized_data
       /\ result.ats_score =
              (IF Has(returned_analysis, "ats_score")
               THEN Item(returned_analysis, "ats_score") ELSE JNum(0))
       /\ result.recommendation =
              (IF Has(returned_analysis, "summary")
               THEN Item(returned_analysis, "summary") ELSE JStr(<<>>))
       /\ IsKeptKeywords(result.matching_skills,
                         KeywordEntries(returned_analysis, "matched_keywords"))
       /\ IsKeptKeywords(result.missing_skills,
                         KeywordEntries(returned_analysis, "missing_critical"))

\* a run returned whose analysis has keyword entries that were kept and
\* entries that were dropped
C8_Witness ==
    /\ pc = "done"
    /\ result.matching_skills # <<>>
    /\ Len(result.matching_skills)
           < Len(KeywordEntries(returned_analysis, "matched_keywords"))

\* C9: the cover-letter generator is called only when the caller asked for a
\* cover letter.  Without the request it is never called and the result's
\* cover_letter is null; with it, it is called at most once, after the
\* optimizer has returned, and exactly once in every run that returns.
C9_CoverLetterOnlyOnRequest ==
    /\ Count("cover_letter.call") <= 1
    /\ requests_sent["cover_letter"] <= Count("cover_letter.call")
    /\ ~generate_cover_letter =>
           /\ Count("cover_letter.call") = 0
           /\ pc = "done" => result.cover_letter = JNull
    /\ Count("cover_letter.call") = 1 =>
           /\ generate_cover_letter
           /\ Position("optimizer.return") > 0
           /\ Position("optimizer.return") < Position("cover_letter.call")
    /\ (generate_cover_letter /\ pc = "done") =>
           /\ Count("cover_letter.call") = 1
           /\ requests_sent["cover_letter"] = 1
           /\ result.cover_letter = cover_letter
           /\ IsDict(result.cover_letter)

\* a run with the cover letter asked for returned one
C9_Witness ==
    /\ pc = "done"
    /\ generate_cover_letter
    /\ requests_sent["cover_letter"] = 1
    /\ Has(result.cover_letter, "cover_letter")

\* the kind of outcome a caller of chat_completion can tell from what it
\* gets: a returned content, or the text of the raised exception's message
MessageKind(out) ==
    IF ~out.raised THEN "content"
    ELSE CASE out.msg[1] = "Cerebras API request timed out after " -> "TimeoutError"
           [] out.msg[1] = "Failed to connect to Cerebras API: " -> "TransportError"
           [] out.msg[1] = "Cerebras API request failed: " -> "RequestFailed"
           [] out.msg[1] = "Cerebras API HTTP error: " -> "HTTPError"
           [] out.msg[1] = "Invalid JSON response from Cerebras API: "
                  -> "MalformedResponseError"
           [] out.msg[1] = "Cerebras API error: " ->
                  CASE out.msg[2] = "Cerebras API authentication failed. Check your API key."
                           -> "AuthenticationError"
                    [] out.msg[2] = "Access forbidden. Check your API permissions."
                           -> "AuthenticationError"
                    [] out.msg[2] = "Rate limit exceeded. Retry after " -> "RateLimitError"
                    [] out.msg[2] = "Bad request: " -> "BadRequestError"
                    [] out.msg[2] = "API endpoint not found. Check your API base URL."
                           -> "EndpointNotFoundError"
                    [] out.msg[2] = "Cerebras API server error: " -> "ProviderServerError"
                    [] out.msg[2] = "Empty response received from Cerebras API"
                           -> "MalformedResponseError"
                    [] OTHER -> "UnexpectedError"
           [] OTHER -> "UnexpectedError"

\* the body is JSON and has choices[0].message.content
HasContent(h) ==
    /\ h.json = "ok"
    /\ IsDict(h.body) /\ Has(h.body, "choices")
    /\ IsList(Item(h.body, "choices")) /\ Item(h.body, "choices").v # <<>>
    /\ IsDict(Item(h.body, "choices").v[1])
    /\ Has(Item(h.body, "choices").v[1], "message")
    /\ IsDict(Item(Item(h.body, "choices").v[1], "message"))
    /\ Has(Item(Item(h.body, "choices").v[1], "message"), "content")

ContentOf(h) == Item(Item(Item(h.body, "choices").v[1], "message"), "content")

\* the classification as stated, first match winning
StatedKind(h) ==
    IF h.exc = "Timeout" THEN "TimeoutError"
    ELSE IF h.exc = "ConnectionError" THEN "TransportError"
    ELSE IF h.status \in {401, 403} THEN "AuthenticationError"
    ELSE IF h.status = 429 THEN "RateLimitError"
    ELSE IF h.status = 400 THEN "BadRequestError"
    ELSE IF h.status = 404 THEN "EndpointNotFoundError"
    ELSE IF h.status >= 500 THEN "ProviderServerError"
    ELSE IF h.status >= 200 /\ h.status < 300
            /\ (~HasContent(h) \/ ContentOf(h) = JStr(<<>>))
    THEN "MalformedResponseError"
    ELSE "content"

CodeKinds(h) ==
    IF h.exc = "Timeout" THEN {"TimeoutError"}
    ELSE IF h.exc = "ConnectionError" THEN {"TransportError"}
    ELSE IF h.exc = "RequestException" THEN {"RequestFailed"}
    ELSE IF h.status \in {401, 403} THEN {"AuthenticationError"}
    ELSE IF h.status = 429 THEN {"RateLimitError"}
    ELSE IF h.status = 400 THEN {"BadRequestError"}
    ELSE IF h.status = 404 THEN {"EndpointNotFoundError"}
    ELSE IF h.status >= 500 THEN {"ProviderServerError"}
    ELSE IF h.status >= 400 THEN {"HTTPError"}
    ELSE IF h.json # "ok" THEN {"RequestFailed", "MalformedResponseError"}
    ELSE IF ~HasContent(h) THEN {"MalformedResponseError", "UnexpectedError"}
    ELSE IF ~Truthy(ContentOf(h)) THEN {"MalformedResponseError"}
    ELSE IF ~HasLen(ContentOf(h)) THEN {"UnexpectedError"}
    ELSE {"content"}

-----------------------------------------------------------------------------
(* Single calls of the transport clients, outside a run.                    *)
(* call is the operation and its arguments, outcome what it did.            *)
(* A temperature is counted in tenths: 7 is 0.7, 20 is 2.0.                 *)

\* str(timeout), for the timeouts of the model
TimeoutText(t) ==
    CASE t = 0 -> "0" [] t = 1 -> "1" [] t = 10 -> "10" [] t = 60 -> "60"
      [] t = 300 -> "300" [] OTHER -> "301"

\* CerebrasClient._validate_request_inputs: the message of the ValueError it
\* raises, or <<>> when it returns
ValidateRequestInputs(c) ==
    IF c.system_prompt = <<>> \/ Strip(c.system_prompt) = <<>>
    THEN <<"System prompt cannot be empty">>
    ELSE IF c.user_message = <<>> \/ Strip(c.user_message) = <<>>
    THEN <<"User message cannot be empty">>
    ELSE IF ~(0 <= c.temperature /\ c.temperature <= 20)
    THEN <<"Temperature must be between 0.0 and 2.0">>
    ELSE IF c.max_tokens < 1 \/ c.max_tokens > 8000
    THEN <<"Max tokens must be between 1 and 8000">>
    ELSE IF c.timeout < 1 \/ c.timeout > 300
    THEN <<"Timeout must be between 1 and 300 seconds">>
    ELSE <<>>

\* a client that waits and sends the request once more after a 429
CerebrasResends(c, h) ==
    [state |-> "done", posted |-> IF h.status = 429 THEN 2 ELSE 1, h |-> h,
     result |-> ChatCompletion(h)]

\* CerebrasClient.chat_completion, the whole call: line 82 validates before
\* the try block, so its ValueError is not wrapped and nothing is posted
CerebrasChatCompletion(c, h) ==
    IF ValidateRequestInputs(c) # <<>>
    THEN [state |-> "done", posted |-> 0, h |-> NotCalled,
          result |-> Raise("ValueError", ValidateRequestInputs(c))]
    ELSE [state |-> "done", posted |-> 1, h |-> h,
          result |->
              IF h.exc = "Timeout"
              THEN Raise("Exception",
                         <<"Cerebras API request timed out after ",
                           TimeoutText(c.timeout), "s">>)
              ELSE ChatCompletion(h)]

\* result['choices'][0]['message']['content'] and len(content) in
\* AIClient.chat_completion: the exception raised, or "none"
ContentPathRaises(body) ==
    IF IsList(body) \/ body.t \in {"num", "bool", "null"} THEN "TypeError"
    ELSE IF ~Has(body, "choices") THEN "KeyError"
    ELSE IF IsDict(Item(body, "choices")) THEN "KeyError"
    ELSE IF ~IsList(Item(body, "choices")) THEN "TypeError"
    ELSE IF Item(body, "choices").v = <<>> THEN "IndexError"
    ELSE LET choice == Item(body, "choices").v[1]
         IN  IF ~IsDict(choice) THEN "TypeError"
             ELSE IF ~Has(choice, "message") THEN "KeyError"
             ELSE IF ~IsDict(Item(choice, "message")) THEN "TypeError"
             ELSE IF ~Has(Item(choice, "message"), "content") THEN "KeyError"
             ELSE IF Item(Item(choice, "message"), "content").t
                         \in {"num", "bool", "null"}
             THEN "TypeError"
             ELSE "none"

\* AIClient.chat_completion, the whole call: the arguments go into the
\* payload unexamined and the request is posted
AIClientChatCompletion(c, h) ==
    [state |-> "done", posted |-> 1, h |-> h,
     result |->
        IF h.exc = "Timeout"
        THEN Raise("Exception",
                   <<"cerebras", " API timeout after ", TimeoutText(c.timeout), "s">>)
        ELSE IF h.exc # "none" \/ RaiseForStatusRaises(h.status)
                \/ h.json = "RequestsJSONDecodeError"
        THEN Raise("Exception", <<"cerebras", " API error: ">>)
        ELSE IF h.json = "ValueError" THEN Raise("ValueError", <<>>)
        ELSE IF ContentPathRaises(h.body) # "none"
        THEN Raise(ContentPathRaises(h.body), <<>>)
        ELSE Return(Item(Item(Item(h.body, "choices").v[1], "message"), "content"))]

\* the calls of the model: both clients, blank and filled prompts, and the
\* ends of every range with a value outside each
ClientCalls ==
    [op : {"chat_completion"},
     client : {"CerebrasClient", "AIClient"},
     system_prompt : {<<>>, <<SP>>, <<"You", SP, "are", SP, "an", SP, "analyst">>},
     user_message : {<<>>, <<NL>>, <<"CV">>},
     temperature : {0 - 1, 0, 7, 20, 21},
     max_tokens : {0, 1, 2000, 8000, 8001},
     timeout : {0, 1, 60, 300, 301}]

ClientInit ==
    /\ AtRest
    /\ ServiceAtRest
    /\ enable_local_fallback = FALSE
    /\ call \in ClientCalls
    /\ outcome = NoOutcome

\* the call runs to its end; h is what requests.post does if it is reached
ClientCall(h) ==
    /\ call.op = "chat_completion"
    /\ outcome = NoOutcome
    /\ outcome' = IF call.client = "CerebrasClient"
                  THEN CerebrasChatCompletion(call, h)
                  ELSE AIClientChatCompletion(call, h)
    /\ UNCHANGED <<workflow, call, service>>

ClientNext == \E h \in Outcomes(<<<<"ok">>>>) : ClientCall(h)

ClientSpec == ClientInit /\ [][ClientNext]_vars

\* the inputs the contract calls invalid
InvalidInputs(c) ==
    \/ c.system_prompt = <<>>
    \/ c.user_message = <<>>
    \/ c.temperature < 0 \/ c.temperature > 20
    \/ c.max_tokens < 1 \/ c.max_tokens > 8000
    \/ c.timeout < 1 \/ c.timeout > 300

\* C11: a chat_completion call whose system_prompt or user_message is empty,
\* or whose temperature, max_tokens or timeout is out of range, ends in the
\* configuration error (the code's ValueError) and posts no HTTP request.
C11_InvalidInputsAreNotSent ==
    (outcome.state = "done" /\ call.op = "chat_completion" /\ InvalidInputs(call))
        => /\ outcome.posted = 0
           /\ outcome.result.raised
           /\ outcome.result.type = "ValueError"

\* getattr(exc, name): the exceptions of the code carry their message only
Attribute(exc, name) ==
    IF name \in DOMAIN exc THEN exc[name] ELSE "AttributeError"

\* a CerebrasClient call whose request was answered with HTTP 429
RateLimited ==
    /\ outcome.state = "done"
    /\ call.op = "chat_completion"
    /\ call.client = "CerebrasClient"
    /\ outcome.posted = 1
    /\ outcome.h.exc = "none"
    /\ outcome.h.status = 429

-----------------------------------------------------------------------------
(* optimize_resume: clean_markdown_formatting and sanitize_for_pydantic     *)

\* d[key] = val on a dict d: an existing key keeps its place
SetItem(d, key, val) ==
    IF Has(d, key)
    THEN JObj([i \in 1..Len(d.v) |->
                  IF d.v[i].k = <<key>> THEN KV(key, val) ELSE d.v[i]])
    ELSE JObj(Append(d.v, KV(key, val)))

\* the index of the first token c of s after position i, else 0
NextToken(s, i, c) ==
    LET At == {j \in (i + 1)..Len(s) : s[j] = c}
    IN  IF At = {} THEN 0 ELSE Min(At)

\* \[([^\]]+)\] matched at s[i]: the index of its closing bracket, else 0
BracketEnd(s, i) ==
    IF s[i] = "[" /\ NextToken(s, i, "]") >= i + 2
    THEN NextToken(s, i, "]") ELSE 0

\* \[([^\]]+)\]\([^\)]+\) matched at s[i]: the index of its closing
\* parenthesis, else 0
LinkEnd(s, i) ==
    LET j == BracketEnd(s, i)
    IN  IF j # 0 /\ j < Len(s) /\ s[j + 1] = "(" /\ NextToken(s, j + 1, ")") >= j + 3
        THEN NextToken(s, j + 1, ")") ELSE 0

\* re.sub(pattern, r'\1', s) from position i on, for the link pattern or the
\* bracket pattern: leftmost matches, left to right
MatchEnd(s, m, link) == IF link THEN LinkEnd(s, m) ELSE BracketEnd(s, m)

RECURSIVE SubGroupFrom(_, _, _)
SubGroupFrom(s, i, link) ==
    LET Starts == {m \in i..Len(s) : MatchEnd(s, m, link) # 0}
    IN  IF Starts = {} THEN SubSeq(s, i, Len(s))
        ELSE SubSeq(s, i, Min(Starts) - 1)
             \o SubSeq(s, Min(Starts) + 1, BracketEnd(s, Min(Starts)) - 1)
             \o SubGroupFrom(s, MatchEnd(s, Min(Starts), link) + 1, link)

\* clean_markdown_formatting(data)
RECURSIVE CleanMarkdownFormatting(_)
CleanMarkdownFormatting(data) ==
    CASE IsDict(data) ->
             JObj([i \in 1..Len(data.v) |->
                      [k |-> data.v[i].k, v |-> CleanMarkdownFormatting(data.v[i].v)]])
      [] IsList(data) ->
             JArr([i \in 1..Len(data.v) |-> CleanMarkdownFormatting(data.v[i])])
      [] IsStr(data) ->
             JStr(SubGroupFrom(SubGroupFrom(data.v, 1, TRUE), 1, FALSE))
      [] OTHER -> data

\* the user_information written when the data has none, lines 1262-1270
DefaultUserInformation ==
    JObj(<<KV("name", JStr(<<"Candidate">>)),
           KV("main_job_title", JStr(<<"Professional">>)),
           KV("profile_description", JStr(<<"Experienced professional.">>)),
           KV("email", JStr(<<"candidate@example.com">>)),
           KV("experiences", EmptyList),
           KV("education", EmptyList),
           KV("skills", JObj(<<KV("hard_skills", EmptyList),
                               KV("soft_skills", EmptyList)>>))>>)

\* a sanitizer that writes the sentinels of DefaultUserInformation
SentinelOfDefault(field) == Item(DefaultUserInformation, field)

\* line 1277: the value written into a missing or falsy mandatory string
Sentinel(field) ==
    IF field # "email" THEN JStr(<<"None Provided">>)
    ELSE JStr(<<"none@example.com">>)

\* line 1276-1277, for one field
FixString(ui, field) ==
    IF ~Has(ui, field) \/ ~Truthy(Item(ui, field))
    THEN SetItem(ui, field, Sentinel(field)) ELSE ui

\* `if f not in d: d[f] = "Unknown"`
SetUnknown(d, f) == IF Has(d, f) THEN d ELSE SetItem(d, f, JStr(<<"Unknown">>))

\* `if f not in d or not isinstance(d[f], list): d[f] = []`
EnsureList(d, f) ==
    IF ~Has(d, f) \/ ~IsList(Item(d, f)) THEN SetItem(d, f, EmptyList) ELSE d

CoreDuties == JArr(<<JStr(<<"Responsible for core duties.">>)>>)

\* lines 1283-1292, for one entry of experiences
FixFourTasks(exp) ==
    IF ~Has(exp, "four_tasks") \/ ~IsList(Item(exp, "four_tasks"))
       \/ ~Truthy(Item(exp, "four_tasks"))
    THEN SetItem(exp, "four_tasks", CoreDuties) ELSE exp

FixExperience(exp) ==
    IF ~IsDict(exp) THEN exp
    ELSE FixFourTasks(SetUnknown(SetUnknown(SetUnknown(SetUnknown(
             exp, "job_title"), "company"), "start_date"), "end_date"))

\* lines 1297-1302, for one entry of education
FixEducation(edu) ==
    IF ~IsDict(edu) THEN edu
    ELSE SetUnknown(SetUnknown(SetUnknown(SetUnknown(
             edu, "institution"), "degree"), "start_date"), "end_date")

\* lines 1279-1292 and 1294-1302: the list is ensured, then its entries fixed
FixEntries(ui, field, Fix(_)) ==
    SetItem(ui, field,
            JArr([i \in 1..Len(Item(ui, field).v) |-> Fix(Item(ui, field).v[i])]))

\* lines 1304-1309
FixSkills(ui) ==
    IF ~Has(ui, "skills") \/ ~IsDict(Item(ui, "skills"))
    THEN SetItem(ui, "skills", Item(DefaultUserInformation, "skills"))
    ELSE SetItem(ui, "skills",
                 EnsureList(EnsureList(Item(ui, "skills"), "hard_skills"),
                            "soft_skills"))

\* lines 1272-1309 on ui = data["user_information"]
FixUserInformation(ui) ==
    FixSkills(
      FixEntries(EnsureList(
        FixEntries(EnsureList(
          FixString(FixString(FixString(FixString(
              ui, "name"), "main_job_title"), "profile_description"), "email"),
          "experiences"), "experiences", FixExperience),
        "education"), "education", FixEducation))

\* lines 1311-1314, for one optional top-level field
FixOptional(data, f) ==
    IF Has(data, f) /\ ~IsList(Item(data, f)) THEN SetItem(data, f, EmptyList)
    ELSE data

\* sanitize_for_pydantic(data)
SanitizeForPydantic(data) ==
    IF ~IsDict(data) THEN EmptyDict
    ELSE FixOptional(FixOptional(FixOptional(
             SetItem(data, "user_information",
                     FixUserInformation(
                         IF ~Has(data, "user_information")
                            \/ ~IsDict(Item(data, "user_information"))
                         THEN DefaultUserInformation
                         ELSE Item(data, "user_information"))),
             "projects"), "certificate"), "extra_curricular_activities")

\* the results handed to the sanitizer.  Absent marks a key the mapping lacks.
Absent == [t |-> "absent", v |-> 0]

Opt(key, x) == IF x = Absent THEN <<>> ELSE <<KV(key, x)>>

FullExperience ==
    JObj(<<KV("job_title", JStr(<<"Engineer">>)), KV("company", JStr(<<"Acme">>)),
           KV("start_date", JStr(<<"2020">>)), KV("end_date", JStr(<<"2024">>)),
           KV("four_tasks", JArr(<<JStr(<<"Built", SP, "[", "APIs", "]">>)>>))>>)

UserInformations ==
    {JObj(Opt("name", n) \o Opt("main_job_title", j) \o Opt("email", e)
          \o Opt("experiences", x) \o Opt("education", d) \o Opt("skills", k)) :
        n \in {Absent, JNull, JStr(<<>>), JNum(7), JStr(<<"Ana">>),
               JStr(<<"[", "[", "Ana", "]", "]">>),
               JStr(<<"[", "Ana", "]", "(", "url", ")">>)},
        j \in {Absent, JStr(<<"Engineer">>)},
        e \in {Absent, JStr(<<"ana@example.com">>)},
        x \in {Absent, JNull, EmptyList, JArr(<<JStr(<<"Engineer">>)>>),
               JArr(<<JObj(<<KV("company", JStr(<<"Acme">>)),
                             KV("four_tasks", EmptyList)>>), FullExperience>>),
               JArr(<<JObj(<<KV("job_title", JNull),
                             KV("four_tasks", JStr(<<"Built">>))>>)>>)},
        d \in {Absent, JStr(<<"BSc">>),
               JArr(<<JObj(<<KV("degree", JStr(<<"BSc">>))>>), JNull>>)},
        k \in {Absent, EmptyList,
               JObj(<<KV("hard_skills", JArr(<<JStr(<<"SQL">>)>>))>>),
               JObj(<<KV("hard_skills", JNull), KV("soft_skills", EmptyList)>>)}}

SanitizeInputs ==
    {JNull, EmptyList, JStr(<<"text">>), JNum(72), EmptyDict,
     JObj(<<KV("user_information", JNull)>>),
     JObj(<<KV("projects", JNull), KV("certificate", EmptyList)>>),
     JObj(<<KV("user_information", JStr(<<"Ana">>)),
            KV("extra_curricular_activities", JStr(<<"chess">>))>>)}
        \cup {JObj(<<KV("user_information", ui)>>) : ui \in UserInformations}

\* how often the sanitizer is applied to its own result
MaxApplications == 2

SanitizeInit ==
    /\ AtRest
    /\ ServiceAtRest
    /\ enable_local_fallback = FALSE
    /\ call \in [op : {"sanitize"}, data : SanitizeInputs]
    /\ outcome = NoOutcome

\* lines 1318-1319 on `data`: the cleaner, then the backfill
Sanitized(n, data, cleaned) ==
    [state |-> "done", applied |-> n, input |-> data, cleaned |-> cleaned,
     value |-> SanitizeForPydantic(cleaned)]

\* the sanitizer is applied to the result, and then to what it returned
Sanitize ==
    /\ call.op = "sanitize"
    /\ IF outcome = NoOutcome
       THEN outcome' = Sanitized(1, call.data, CleanMarkdownFormatting(call.data))
       ELSE /\ outcome.applied < MaxApplications
            /\ outcome' = Sanitized(outcome.applied + 1, outcome.value,
                                    CleanMarkdownFormatting(outcome.value))
    /\ UNCHANGED <<workflow, call, service>>

SanitizeNext == Sanitize

SanitizeSpec == SanitizeInit /\ [][SanitizeNext]_vars

\* the mapping d has every field of fs
HasAll(d, fs) == \A f \in fs : Has(d, f)

\* the entries of the list d[field] are mappings with the fields fs
EntriesHave(d, field, fs) ==
    /\ Has(d, field) /\ IsList(Item(d, field))
    /\ \A i \in 1..Len(Item(d, field).v) :
           IsDict(Item(d, field).v[i]) /\ HasAll(Item(d, field).v[i], fs)

MandatoryStrings == {"name", "main_job_title", "profile_description", "email"}

\* what the resume schema asks of a sanitized result
SchemaSatisfied(d) ==
    /\ IsDict(d) /\ Has(d, "user_information")
    /\ IsDict(Item(d, "user_information"))
    /\ LET ui == Item(d, "user_information")
       IN  /\ \A f \in MandatoryStrings : Has(ui, f) /\ Truthy(Item(ui, f))
           /\ EntriesHave(ui, "experiences",
                          {"job_title", "company", "start_date", "end_date",
                           "four_tasks"})
           /\ \A i \in 1..Len(Item(ui, "experiences").v) :
                  /\ IsList(Item(Item(ui, "experiences").v[i], "four_tasks"))
                  /\ Truthy(Item(Item(ui, "experiences").v[i], "four_tasks"))
           /\ EntriesHave(ui, "education",
                          {"institution", "degree", "start_date", "end_date"})
           /\ Has(ui, "skills") /\ IsDict(Item(ui, "skills"))
           /\ \A f \in {"hard_skills", "soft_skills"} :
                  Has(Item(ui, "skills"), f) /\ IsList(Item(Item(ui, "skills"), f))

\* C13: for every input, mapping or not, the sanitizer returns a mapping that
\* satisfies the schema: user_information with non-empty name,
\* main_job_title, profile_description and email; experiences whose entries
\* have job_title, company, start_date, end_date and a non-empty list
\* four_tasks; education whose entries have institution, degree, start_date,
\* end_date; skills with the lists hard_skills and soft_skills.
C13_SanitizedSatisfiesSchema ==
    (call.op = "sanitize" /\ outcome.state = "done" /\ outcome.applied = 1)
        => SchemaSatisfied(outcome.value)

\* C14: the sanitizer (cleaner, then backfill) applied to its own result
\* returns that result: sanitize(sanitize(m)) = sanitize(m).
C14_SanitizeIsIdempotent ==
    (call.op = "sanitize" /\ outcome.state = "done" /\ outcome.applied >= 2)
        => outcome.value = outcome.input

\* sanitize_for_pydantic was given a mapping whose user_information is one
GivenUserInformation ==
    /\ call.op = "sanitize" /\ outcome.state = "done" /\ outcome.applied = 1
    /\ IsDict(outcome.cleaned)
    /\ Has(outcome.cleaned, "user_information")
    /\ IsDict(Item(outcome.cleaned, "user_information"))

\* in the returned user_information every mandatory string that was present
\* and truthy is kept and every other one is S(field); a missing experiences
\* or education is [], a missing skills has two empty lists
KeepsOrSubstitutes(S(_)) ==
    LET before == Item(outcome.cleaned, "user_information")
        after  == Item(outcome.value, "user_information")
    IN  /\ \A f \in MandatoryStrings :
               Item(after, f) = IF Has(before, f) /\ Truthy(Item(before, f))
                                THEN Item(before, f) ELSE S(f)
        /\ \A f \in {"experiences", "education"} :
               ~Has(before, f) => Item(after, f) = EmptyList
        /\ ~Has(before, "skills") =>
               Item(after, "skills") = Item(DefaultUserInformation, "skills")

\* the stated sentinels and the ones found, by field
StatedSentinel(f) ==
    CASE f = "name" -> JStr(<<"Candidate">>)
      [] f = "main_job_title" -> JStr(<<"Professional">>)
      [] f = "profile_description" -> JStr(<<"Experienced professional.">>)
      [] OTHER -> JStr(<<"candidate@example.com">>)

NoneProvided(f) ==
    CASE f = "email" -> JStr(<<"none@example.com">>)
      [] OTHER -> JStr(<<"None Provided">>)

\* C15, as stated: with user_information a mapping, present non-empty
\* mandatory strings are kept and the others become "Candidate",
\* "Professional", the generic sentence and the placeholder address; missing
\* experiences, education, skills become [], [], two empty lists; and
\* sanitize({}) has the same sentinels.
C15_SubstitutesDefaultSentinels ==
    /\ GivenUserInformation => KeepsOrSubstitutes(StatedSentinel)
    /\ (call.op = "sanitize" /\ outcome.state = "done" /\ outcome.applied = 1
        /\ outcome.cleaned = EmptyDict)
           => Item(outcome.value, "user_information") = DefaultUserInformation

\* C15, amended: with user_information a mapping, present truthy mandatory
\* strings are kept and the others become "None Provided" (name,
\* main_job_title, profile_description) and "none@example.com" (email);
\* missing experiences, education, skills become [], [], two empty lists.
\* "Candidate", "Professional", "Experienced professional." and
\* "candidate@example.com" are written only when user_information is missing
\* or no mapping, as in sanitize({}).
C15_SubstitutesNoneProvided ==
    /\ GivenUserInformation => KeepsOrSubstitutes(NoneProvided)
    /\ (call.op = "sanitize" /\ outcome.state = "done" /\ outcome.applied = 1
        /\ IsDict(outcome.cleaned) /\ ~GivenUserInformation)
           => Item(outcome.value, "user_information") = DefaultUserInformation

C15_Witness ==
    /\ GivenUserInformation
    /\ ~Has(Item(outcome.cleaned, "user_information"), "name")
    /\ Has(Item(outcome.cleaned, "user_information"), "email")
    /\ ~Has(Item(outcome.cleaned, "user_information"), "skills")
    /\ Item(Item(outcome.value, "user_information"), "name") = JStr(<<"None Provided">>)
    /\ Item(Item(outcome.value, "user_information"), "email") = JStr(<<"ana@example.com">>)

-----------------------------------------------------------------------------
(* json.dumps, and the recovery of a document from its own JSON text         *)

\* str(n), for the numbers of the model
NumText(n) == CHOOSE w \in Numerals : ToInt(w) = n

\* json.dumps(x) with the default separators, for texts that need no escape
RECURSIVE JsonDumps(_), DumpItems(_, _)
JsonDumps(x) ==
    CASE x.t = "obj"  -> <<"{">> \o DumpItems(x, 1) \o <<"}">>
      [] x.t = "arr"  -> <<"[">> \o DumpItems(x, 1) \o <<"]">>
      [] x.t = "str"  -> <<Quote>> \o x.v \o <<Quote>>
      [] x.t = "num"  -> <<NumText(x.v)>>
      [] x.t = "bool" -> IF x.v THEN <<"true">> ELSE <<"false">>
      [] OTHER        -> <<"null">>

\* the members or elements of x from the i-th on, ", " between them
DumpItems(x, i) ==
    IF i > Len(x.v) THEN <<>>
    ELSE (IF i > 1 THEN <<",", SP>> ELSE <<>>)
         \o (IF x.t = "obj"
             THEN <<Quote>> \o x.v[i].k \o <<Quote, ":", SP>> \o JsonDumps(x.v[i].v)
             ELSE JsonDumps(x.v[i]))
         \o DumpItems(x, i + 1)

\* documents of the AnalysisResult and OptimizedResumeDocument shapes
Documents ==
    {JObj(Opt("ats_score", a) \o Opt("summary", s) \o Opt("ats_optimized", b)
          \o Opt("keyword_analysis", k) \o Opt("user_information", u)) :
        a \in {Absent, JNum(0), JNum(72), JNum(100)},
        s \in {Absent, JStr(<<>>), JStr(<<"Strong", SP, "match">>),
               JStr(<<"Skills", ":", SP, "SQL">>),
               JStr(<<"Add", SP, "SQL", ",", SP, "}">>)},
        b \in {Absent, JBool(TRUE), JNull},
        k \in {Absent, EmptyDict,
               JObj(<<KV("matched_keywords",
                         JArr(<<JObj(<<KV("keyword", JStr(<<"Python">>)),
                                       KV("jd_mentions", JNum(50))>>),
                                JObj(<<KV("keyword", JStr(<<"SQL">>))>>)>>)),
                      KV("missing_critical", EmptyList)>>)},
        u \in {Absent,
               JObj(<<KV("name", JStr(<<"Ana">>)),
                      KV("experiences", JArr(<<FullExperience>>)),
                      KV("skills", JObj(<<KV("hard_skills",
                             JArr(<<JStr(<<"SQL">>), JStr(<<"Go">>)>>))>>))>>)}}

\* the closing braces and brackets of a json.dumps text that end a
\* non-empty object or list (a text of the model has no quote inside a string)
Closers(text) ==
    {i \in 2..Len(text) :
        /\ text[i] \in {"}", "]"}
        /\ text[i - 1] \notin {"{", "["}
        /\ Cardinality({j \in 1..(i - 1) : text[j] = Quote}) % 2 = 0}

\* the text with a comma, and this whitespace, written before position i
WithTrailingComma(text, i, ws) ==
    SubSeq(text, 1, i - 1) \o <<",">> \o ws \o SubSeq(text, i, Len(text))

\* the documents that are given a trailing comma
RepairDocuments ==
    {JObj(Opt("ats_score", a) \o Opt("summary", s) \o Opt("keyword_analysis", k)
          \o Opt("user_information", u)) :
        a \in {Absent, JNum(72)},
        s \in {Absent, JStr(<<"Strong", SP, "match">>)},
        k \in {Absent,
               JObj(<<KV("matched_keywords",
                         JArr(<<JObj(<<KV("keyword", JStr(<<"Python">>))>>)>>))>>)},
        u \in {Absent,
               JObj(<<KV("name", JStr(<<"Ana">>)),
                      KV("skills", JObj(<<KV("hard_skills",
                             JArr(<<JStr(<<"SQL">>), JStr(<<"Go">>)>>))>>))>>)}}

\* json.dumps(X) of each of them, with one trailing comma
TrailingCommaCalls ==
    UNION {[op : {"repair"}, data : {d}, at : Closers(JsonDumps(d)),
            ws : {<<>>, <<SP>>, <<NL>>}] : d \in RepairDocuments}

RecoveryInit ==
    /\ AtRest
    /\ ServiceAtRest
    /\ enable_local_fallback = FALSE
    /\ call \in [op : {"recover"}, data : Documents] \cup TrailingCommaCalls
    /\ outcome = NoOutcome

\* the provider replies json.dumps(X) and the stage recovers the document
Recovered(stage, text) ==
    [state |-> "done", stage |-> stage, text |-> text,
     result |-> IF stage = "analyzer" THEN Analyze(Return(JStr(text)))
                ELSE OptimizeComprehensive(Return(JStr(text)))]

AnalyzerRecovers ==
    /\ call.op = "recover" /\ outcome = NoOutcome
    /\ outcome' = Recovered("analyzer", JsonDumps(call.data))
    /\ UNCHANGED <<workflow, call, service>>

OptimizerRecovers ==
    /\ call.op = "recover" /\ outcome = NoOutcome
    /\ outcome' = Recovered("optimizer", JsonDumps(call.data))
    /\ UNCHANGED <<workflow, call, service>>

\* the provider replies json.dumps(X) with a trailing comma
AnalyzerRepairs ==
    /\ call.op = "repair" /\ outcome = NoOutcome
    /\ outcome' = Recovered("analyzer",
                             WithTrailingComma(JsonDumps(call.data), call.at, call.ws))
    /\ UNCHANGED <<workflow, call, service>>

OptimizerRepairs ==
    /\ call.op = "repair" /\ outcome = NoOutcome
    /\ outcome' = Recovered("optimizer",
                             WithTrailingComma(JsonDumps(call.data), call.at, call.ws))
    /\ UNCHANGED <<workflow, call, service>>

RecoveryNext ==
    AnalyzerRecovers \/ OptimizerRecovers \/ AnalyzerRepairs \/ OptimizerRepairs

RecoverySpec == RecoveryInit /\ [][RecoveryNext]_vars

\* C16: for every document X, the Analyzer's recovery and the Optimizer's
\* recovery of json.dumps(X) return a mapping equal to X.
C16_RecoveryRoundTrip ==
    (call.op = "recover" /\ outcome.state = "done")
        => ~outcome.result.raised /\ outcome.result.value = call.data

\* lines 214-231 of CVOptimizer._clean_json_response: the text after the
\* conservative repairs (trailing commas removed, missing commas inserted)
ConservativeRepairs(response0) ==
    LET r1 == StripFences(Strip(response0))
        r2 == Strip(Slice(r1, Find(r1, "{"), RFind(r1, "}") + 1))
    IN  SubAdjacent(
            SubAdjacent(
                SubAdjacent(SubAdjacent(r2, ",", "}", <<"}">>), ",", "]", <<"]">>),
                "}", "{", <<"}", ",", "{">>),
            Quote, Quote, <<Quote, ",", Quote>>)

\* C25: the aggressive repair (quoting bare keys and bare values) is applied
\* only when the text still fails to parse after the conservative repairs: a
\* reply that parses after them reaches the parser as they left it, and the
\* optimizer returns what it parses to.
C25_AggressiveRepairOnlyOnFailure ==
    ( /\ outcome.state = "done"
      /\ call.op \in {"recover", "repair"}
      /\ outcome.stage = "optimizer"
      /\ JsonLoads(ConservativeRepairs(outcome.text)).ok )
    => /\ OptimizerClean(outcome.text) = Return(ConservativeRepairs(outcome.text))
       /\ outcome.result = Return(JsonLoads(ConservativeRepairs(outcome.text)).val)

\* C26: json.dumps(X) with a comma written directly before a closing brace or
\* bracket, with or without whitespace between them, is recovered by the
\* strict parse into X, by the analyzer and by the optimizer.
C26_TrailingCommaIsRepaired ==
    (outcome.state = "done" /\ call.op = "repair")
        => /\ ~outcome.result.raised
           /\ outcome.result.value = call.data
           /\ outcome.stage = "analyzer" => JsonLoads(AnalyzerClean(outcome.text)).ok

-----------------------------------------------------------------------------
(* The cover-letter generator, in a run *)

\* C17: every document returned by CoverLetterGenerator.generate has
\* cover_letter, word_count and tone_matched (word_count and tone_matched
\* are filled in when the model's JSON omits them).
C17_DocumentHasMetadata ==
    Count("cover_letter.return") > 0 =>
        /\ IsDict(cover_letter)
        /\ HasAll(cover_letter, {"cover_letter", "word_count", "tone_matched"})

\* the reply text of the cover-letter stage holds no `{`...`}` span
NoObjectSpan ==
    /\ GotReply("cover_letter")
    /\ LET r == StripFences(Strip(completion["cover_letter"].value.v))
       IN  ~(Find(r, "{") >= 0 /\ RFind(r, "}") > Find(r, "{"))

\* that reply text is valid JSON all the same (a list, a string, a number)
ValidJsonReply ==
    JsonLoads(Strip(StripFences(Strip(completion["cover_letter"].value.v)))).ok

-----------------------------------------------------------------------------
(* LLMProviderFactory: the provider profile resolved from the overrides and *)
(* the environment; CerebrasClient.__init__.  An LLMConfig is a mapping of  *)
(* its fields; the environment is the set of the variables that are set.    *)

EnvNames ==
    {"LLM_PROVIDER", "PROVIDER_TYPE", "MODEL_NAME", "LLM_MODEL", "API_KEY",
     "LLM_API_KEY", "API_BASE", "LLM_API_BASE", "LLM_TEMPERATURE",
     "LLM_MAX_TOKENS", "LLM_TIMEOUT", "LLM_RETRY_ATTEMPTS", "CEREBRAS_API_KEY",
     "CEREBRASAI_API_KEY", "CEREBRAS_API_BASE", "CEREBRASAI_API_BASE",
     "CEREBRAS_MODEL", "CEREBRAS_MODEL_NAME", "OPENAI_API_KEY",
     "OPENAI_API_BASE", "OPENAI_MODEL_NAME", "OLLAMA_BASE_URL", "OLLAMA_MODEL"}

\* the value a variable has when it is set: a provider name, a numeral
\* (tenths for the temperature), or a text of its own
EnvValue(name) ==
    CASE name = "LLM_PROVIDER"       -> JStr(<<"openai">>)
      [] name = "PROVIDER_TYPE"      -> JStr(<<"ollama">>)
      [] name = "LLM_TEMPERATURE"    -> JNum(2)
      [] name = "LLM_MAX_TOKENS"     -> JNum(1000)
      [] name = "LLM_TIMEOUT"        -> JNum(30)
      [] name = "LLM_RETRY_ATTEMPTS" -> JNum(5)
      [] OTHER                       -> JStr(<<"$", name>>)

\* os.getenv(name, default)
Getenv(env, name, default) == IF name \in env THEN EnvValue(name) ELSE default

\* Python's `a or b`
Or(a, b) == IF Truthy(a) THEN a ELSE b

\* str.lower(), for the provider names of the model
Lower(tok) == IF tok = "OpenAI" THEN "openai" ELSE tok

\* create_from_env, lines 35-52: the provider type of the profile
ProviderOf(env, ov) ==
    LET provider_str ==
            Or(Get(ov, "provider_type", JNull),
               Or(Getenv(env, "LLM_PROVIDER", JNull),
                  Or(Getenv(env, "PROVIDER_TYPE", JNull), JStr(<<"cerebras">>))))
    IN  IF Lower(provider_str.v[1]) \in {"cerebras", "openai", "ollama",
                                         "anthropic", "huggingface"}
        THEN Lower(provider_str.v[1]) ELSE "cerebras"

\* _get_config_from_env, lines 73-108: the base configuration
BaseConfig(provider_type, env, ov) ==
    JObj(<<
        KV("provider_type", JStr(<<provider_type>>)),
        KV("model_name",
           Or(Get(ov, "model_name", JNull),
              Or(Getenv(env, "MODEL_NAME", JNull),
                 Or(Getenv(env, "LLM_MODEL", JNull), JStr(<<"gpt-oss-120b">>))))),
        KV("api_key",
           Or(Get(ov, "api_key", JNull),
              Or(Getenv(env, "API_KEY", JNull), Getenv(env, "LLM_API_KEY", JNull)))),
        KV("api_base",
           Or(Get(ov, "api_base", JNull),
              Or(Getenv(env, "API_BASE", JNull), Getenv(env, "LLM_API_BASE", JNull)))),
        KV("temperature",
           Or(Get(ov, "temperature", JNull), Getenv(env, "LLM_TEMPERATURE", JNum(7)))),
        KV("max_tokens",
           Or(Get(ov, "max_tokens", JNull), Getenv(env, "LLM_MAX_TOKENS", JNull))),
        KV("timeout",
           Or(Get(ov, "timeout", JNull), Getenv(env, "LLM_TIMEOUT", JNum(60)))),
        KV("retry_attempts",
           Or(Get(ov, "retry_attempts", JNull),
              Getenv(env, "LLM_RETRY_ATTEMPTS", JNum(3))))>>)

\* `if not config.f: config.f = value`
FillIfNot(config, f, value) ==
    IF ~Truthy(Item(config, f)) THEN SetItem(config, f, value) ELSE config

\* lines 110-138: the provider-specific defaults
ProviderDefaults(config, provider_type, env) ==
    IF provider_type = "cerebras"
    THEN FillIfNot(FillIfNot(FillIfNot(config,
             "api_key", Or(Getenv(env, "CEREBRAS_API_KEY", JNull),
                           Getenv(env, "CEREBRASAI_API_KEY", JNull))),
             "api_base", Or(Getenv(env, "CEREBRAS_API_BASE", JNull),
                            Getenv(env, "CEREBRASAI_API_BASE",
                                   JStr(<<"https://api.cerebras.ai/v1">>)))),
             "model_name", Or(Getenv(env, "CEREBRAS_MODEL", JNull),
                              Getenv(env, "CEREBRAS_MODEL_NAME",
                                     JStr(<<"gpt-oss-120b">>))))
    ELSE IF provider_type = "openai"
    THEN FillIfNot(FillIfNot(FillIfNot(config,
             "api_key", Getenv(env, "OPENAI_API_KEY", JNull)),
             "api_base", Getenv(env, "OPENAI_API_BASE",
                                JStr(<<"https://api.openai.com/v1">>))),
             "model_name", Getenv(env, "OPENAI_MODEL_NAME", JStr(<<"gpt-4">>)))
    ELSE IF provider_type = "ollama"
    THEN SetItem(FillIfNot(FillIfNot(config,
             "api_base", Getenv(env, "OLLAMA_BASE_URL",
                                JStr(<<"http://localhost:11434">>))),
             "model_name", Getenv(env, "OLLAMA_MODEL", JStr(<<"llama2">>))),
             "api_key", JNull)
    ELSE config

\* lines 140-143: every override that names a field is set, from the i-th on
RECURSIVE ApplyOverrides(_, _, _)
ApplyOverrides(config, ov, i) ==
    IF i > Len(ov.v) THEN config
    ELSE ApplyOverrides(
             IF Has(config, ov.v[i].k[1])
             THEN SetItem(config, ov.v[i].k[1], ov.v[i].v) ELSE config,
             ov, i + 1)

\* _get_config_from_env(provider_type, **overrides)
GetConfigFromEnv(provider_type, env, ov) ==
    ApplyOverrides(
        ProviderDefaults(BaseConfig(provider_type, env, ov), provider_type, env),
        ov, 1)

\* create_from_env(**overrides), lines 32-57, and create(config), lines
\* 60-67: a provider_type keyword is handed on next to the positional
\* provider_type, which Python refuses; a provider type without a registered
\* class is refused by create; else the provider is built around the profile
CreateFromEnvResult(env, ov) ==
    IF Has(ov, "provider_type")
    THEN Raise("TypeError", <<"got multiple values for argument 'provider_type'">>)
    ELSE IF ProviderOf(env, ov) \notin {"cerebras", "openai", "ollama"}
    THEN Raise("ValueError", <<"Unsupported provider type: ", ProviderOf(env, ov)>>)
    ELSE Return(GetConfigFromEnv(ProviderOf(env, ov), env, ov))

\* CerebrasClient.__init__(api_key, api_base, model), lines 28-36
CerebrasClientInit(env, args) ==
    LET api_key == Or(Get(args, "api_key", JNull),
                      Getenv(env, "CEREBRAS_API_KEY", JNull))
    IN  IF ~Truthy(api_key)
        THEN Raise("ValueError", <<"CEREBRAS_API_KEY not found. ">>)
        ELSE Return(JObj(<<
                 KV("api_key", api_key),
                 KV("api_base",
                    Or(Get(args, "api_base", JNull),
                       Getenv(env, "CEREBRAS_API_BASE",
                              JStr(<<"https://api.cerebras.ai/v1">>)))),
                 KV("model_name",
                    Or(Get(args, "model", JNull),
                       Getenv(env, "CEREBRAS_MODEL", JStr(<<"gpt-oss-120b">>))))>>))

\* the environments of the model: at most two variables are set
Environments ==
    {{}} \cup {{a} : a \in EnvNames} \cup {{a, b} : a \in EnvNames, b \in EnvNames}

\* the overrides of the model: a provider, and one more keyword with a
\* truthy or a falsy value
OverrideSets ==
    {JObj(Opt("provider_type", p) \o o) :
        p \in {Absent, JStr(<<"cerebras">>), JStr(<<"OpenAI">>), JStr(<<"ollama">>),
               JStr(<<"anthropic">>), JStr(<<"mistral">>)},
        o \in {<<>>, <<KV("verbose", JBool(TRUE))>>}
              \cup {<<KV(f, JStr(v))>> :
                       f \in {"model_name", "api_key", "api_base"},
                       v \in {<<>>, <<"given">>}}
              \cup {<<KV(f, JNum(n))>> :
                       f \in {"temperature", "max_tokens", "timeout",
                              "retry_attempts"},
                       n \in {0, 5}}}

\* the arguments of CerebrasClient(...)
ClientArgs ==
    {JObj(Opt("api_key", k) \o Opt("api_base", b)) :
        k \in {Absent, JStr(<<>>), JStr(<<"given">>)},
        b \in {Absent, JStr(<<"http://localhost:11434">>)}}

FactoryInit ==
    /\ AtRest
    /\ ServiceAtRest
    /\ enable_local_fallback = FALSE
    /\ call \in [op : {"create_from_env"}, env : Environments, args : OverrideSets]
                \cup [op : {"CerebrasClient"}, env : Environments, args : ClientArgs]
    /\ outcome = NoOutcome

\* create_from_env(**overrides)
CreateFromEnv ==
    /\ call.op = "create_from_env" /\ outcome = NoOutcome
    /\ outcome' = [state |-> "done", result |-> CreateFromEnvResult(call.env, call.args)]
    /\ UNCHANGED <<workflow, call, service>>

\* CerebrasClient(api_key, api_base)
ConstructClient ==
    /\ call.op = "CerebrasClient" /\ outcome = NoOutcome
    /\ outcome' = [state |-> "done", result |-> CerebrasClientInit(call.env, call.args)]
    /\ UNCHANGED <<workflow, call, service>>

FactoryNext == CreateFromEnv \/ ConstructClient

FactorySpec == FactoryInit /\ [][FactoryNext]_vars

\* a construction has ended (one that was not asked with a provider_type
\* keyword, which is refused before any credential is looked at)
Constructed ==
    /\ outcome.state = "done"
    /\ call.op \in {"create_from_env", "CerebrasClient"}
    /\ ~Has(call.args, "provider_type")

\* the provider asked for is on the local network: the ollama family, or a
\* base URL on the loopback host or the well-known local port
LocalProvider ==
    \/ call.op = "create_from_env" /\ ProviderOf(call.env, call.args) = "ollama"
    \/ Get(call.args, "api_base", JNull) = JStr(<<"http://localhost:11434">>)

\* no source holds a credential: no argument and no key variable
NoCredentialSource ==
    /\ ~Truthy(Get(call.args, "api_key", JNull))
    /\ call.env \cap {"API_KEY", "LLM_API_KEY", "CEREBRAS_API_KEY",
                      "CEREBRASAI_API_KEY", "OPENAI_API_KEY"} = {}

\* C19: a profile or client that is constructed holds a non-empty
\* credential; a non-local provider with no credential in any source fails
\* fast; a local-network provider never fails for lack of a credential and
\* gets a dummy non-empty credential.
C19_ConstructedHoldsCredential ==
    Constructed =>
        /\ ~outcome.result.raised => Truthy(Item(outcome.result.value, "api_key"))
        /\ (~LocalProvider /\ NoCredentialSource) => outcome.result.raised
        /\ LocalProvider => ~outcome.result.raised

\* the first variable of `names` that is set, else the default
FirstSet(env, names, default) ==
    LET S == {i \in 1..Len(names) : names[i] \in env}
    IN  IF S = {} THEN default ELSE EnvValue(names[Min(S)])

\* the variables a field is read from, generic ones first, and the default
\* of the provider family
StatedSources(family, f) ==
    CASE f = "model_name" ->
             <<"MODEL_NAME", "LLM_MODEL">>
             \o (CASE family = "cerebras" -> <<"CEREBRAS_MODEL", "CEREBRAS_MODEL_NAME">>
                   [] family = "openai"   -> <<"OPENAI_MODEL_NAME">>
                   [] OTHER               -> <<"OLLAMA_MODEL">>)
      [] f = "api_key" ->
             <<"API_KEY", "LLM_API_KEY">>
             \o (CASE family = "cerebras" -> <<"CEREBRAS_API_KEY", "CEREBRASAI_API_KEY">>
                   [] family = "openai"   -> <<"OPENAI_API_KEY">>
                   [] OTHER               -> <<>>)
      [] f = "api_base" ->
             <<"API_BASE", "LLM_API_BASE">>
             \o (CASE family = "cerebras" -> <<"CEREBRAS_API_BASE", "CEREBRASAI_API_BASE">>
                   [] family = "openai"   -> <<"OPENAI_API_BASE">>
                   [] OTHER               -> <<"OLLAMA_BASE_URL">>)
      [] f = "temperature"    -> <<"LLM_TEMPERATURE">>
      [] f = "max_tokens"     -> <<"LLM_MAX_TOKENS">>
      [] f = "timeout"        -> <<"LLM_TIMEOUT">>
      [] OTHER                -> <<"LLM_RETRY_ATTEMPTS">>

StatedDefault(family, f) ==
    CASE f = "model_name" ->
             (CASE family = "cerebras" -> JStr(<<"gpt-oss-120b">>)
                [] family = "openai"   -> JStr(<<"gpt-4">>)
                [] OTHER               -> JStr(<<"llama2">>))
      [] f = "api_base" ->
             (CASE family = "cerebras" -> JStr(<<"https://api.cerebras.ai/v1">>)
                [] family = "openai"   -> JStr(<<"https://api.openai.com/v1">>)
                [] OTHER               -> JStr(<<"http://localhost:11434">>))
      [] f = "temperature"    -> JNum(7)
      [] f = "timeout"        -> JNum(60)
      [] f = "retry_attempts" -> JNum(3)
      [] OTHER                -> JNull

ProfileFields ==
    {"model_name", "api_key", "api_base", "temperature", "max_tokens",
     "timeout", "retry_attempts"}

\* the field of the resolved profile is the override when one is given,
\* else the first set variable, else the family's default
FollowsPrecedence(f) ==
    Item(outcome.result.value, f) =
        IF Has(call.args, f) THEN Item(call.args, f)
        ELSE FirstSet(call.env, StatedSources(ProviderOf(call.env, call.args), f),
                      StatedDefault(ProviderOf(call.env, call.args), f))

\* C20: every field of the resolved profile follows the precedence explicit
\* override (also 0 or empty) > generic environment variable >
\* provider-specific variable > default of the provider family.  (The
\* credential of the ollama family is C19's.)
C20_ResolutionFollowsPrecedence ==
    (outcome.state = "done" /\ call.op = "create_from_env"
     /\ ~outcome.result.raised)
        => \A f \in ProfileFields :
               (f = "api_key" /\ ProviderOf(call.env, call.args) = "ollama")
               \/ FollowsPrecedence(f)


-----------------------------------------------------------------------------
(* No automatic retries *)

\* the most calls of a stage in one run: one, and for the analyzer one more
\* when the local fallback is configured
MostCalls(stage) ==
    IF stage = "analyzer" /\ enable_local_fallback THEN 2 ELSE 1

CallOf(stage) ==
    CASE stage = "analyzer"  -> "analyzer.call"
      [] stage = "optimizer" -> "optimizer.call"
      [] OTHER               -> "cover_letter.call"

\* C21: no stage is retried automatically: in a run the optimizer and the
\* cover-letter generator issue at most one provider call each, the analyzer
\* at most one, or at most two with the local fallback; after a stage has
\* raised (rate limit, timeout, parse failure) no stage is called again,
\* the fallback's second analyzer call aside.
C21_NoStageIsRetried ==
    /\ \A s \in Stages :
           /\ requests_sent[s] <= MostCalls(s)
           /\ Count(CallOf(s)) <= MostCalls(s)
    /\ \A i \in 1..Len(trace) :
           trace[i] \in {"analyzer.raise", "optimizer.raise", "cover_letter.raise",
                         "raise"}
           => \A j \in (i + 1)..Len(trace) :
                  /\ trace[j] \notin {"optimizer.call", "cover_letter.call"}
                  /\ trace[j] = "analyzer.call" =>
                         (enable_local_fallback /\ trace[i] = "analyzer.raise")

\* the optimizer's only call was refused with 429 and the run failed
C21_Witness ==
    /\ pc = "failed"
    /\ http["optimizer"].status = 429
    /\ requests_sent["optimizer"] = 1
    /\ Count("optimizer.call") = 1
    /\ Count("analyzer.call") = 1
    /\ trace[Len(trace)] = "raise"


\* C22: one call of chat_completion sends at most one HTTP request, whatever
\* requests.post does (success, 429, timeout, 5xx, a body that is no JSON):
\* the request is sent once and its outcome is the call's outcome.
C22_AtMostOneRequestPerCall ==
    (outcome.state = "done" /\ call.op = "chat_completion")
        => /\ outcome.posted <= 1
           /\ outcome.posted = 1 <=> outcome.h # NotCalled

\* a CerebrasClient call that was answered 429 has sent one request
C22_Witness ==
    /\ outcome.state = "done"
    /\ call.op = "chat_completion"
    /\ call.client = "CerebrasClient"
    /\ outcome.h.status = 429
    /\ outcome.result.raised
    /\ outcome.posted = 1


-----------------------------------------------------------------------------
(* The process: requests served side by side, and provider switching *)

MaxRequests == 2

\* AIClient.__init__(provider), lines 33-59
AIClientInit(env, provider) ==
    LET p == Or(provider,
                IF env.AI_PROVIDER = JNull THEN JStr(<<"cerebras">>)
                ELSE env.AI_PROVIDER)
        name == IF p.v = <<>> THEN "" ELSE p.v[1]
        key == CASE name = "deepseek" -> "API_KEY"
                 [] name = "cerebras" -> "CEREBRAS_API_KEY"
                 [] OTHER             -> "OPENAI_API_KEY"
    IN  IF name \notin {"deepseek", "cerebras", "openai"}
        THEN Raise("ValueError", <<"Unknown provider: ", name>>)
        ELSE IF ~Truthy(Getenv(env.names, key, JNull))
        THEN Raise("ValueError", <<key, " not found in environment. ">>)
        ELSE Return(JObj(<<
                 KV("provider", p),
                 KV("api_key", Getenv(env.names, key, JNull)),
                 KV("api_base",
                    JStr(<<CASE name = "deepseek" -> "https://api.deepseek.com/v1"
                             [] name = "cerebras" -> "https://api.cerebras.ai/v1"
                             [] OTHER             -> "https://api.openai.com/v1">>)),
                 KV("model_name",
                    JStr(<<CASE name = "deepseek" -> "deepseek-chat"
                             [] name = "cerebras" -> "gpt-oss-120b"
                             [] OTHER             -> "gpt-4">>))>>))

\* the test call of switch_ai_provider, lines 156-161
TestCall ==
    [op |-> "chat_completion", client |-> "AIClient", system_prompt |-> <<"Test">>,
     user_message |-> <<"Hello">>, temperature |-> 7, max_tokens |-> 10,
     timeout |-> 10]

\* switch_ai_provider(request), lines 131-189: the environment it leaves and
\* the response; h is what the test call's requests.post does.  The
\* HTTPException of line 143 is raised inside the try block and leaves
\* through `except Exception`, as status 500.
SwitchAiProvider(env, request, h) ==
    IF request.provider \notin {"deepseek", "cerebras", "openai"}
    THEN [environ |-> env, status |-> 500, body |-> JNull, posted |-> 0]
    ELSE LET switched == [env EXCEPT !.AI_PROVIDER = JStr(<<request.provider>>)]
             client == AIClientInit(switched, JNull)
             tested == /\ ~client.raised
                       /\ ~AIClientChatCompletion(TestCall, h).result.raised
             posted == IF request.test_connection /\ ~client.raised THEN 1 ELSE 0
         IN  IF client.raised
             THEN [environ |-> switched, status |-> 500, body |-> JNull,
                   posted |-> posted]
             ELSE [environ |-> switched, status |-> 200, posted |-> posted,
                   body |-> JObj(<<KV("success", JBool(TRUE)),
                                   KV("provider", Item(client.value, "provider")),
                                   KV("model", Item(client.value, "model_name"))>>
                                 \o (IF request.test_connection
                                     THEN <<KV("connection_tested", JBool(tested))>>
                                     ELSE <<>>))]

\* CVWorkflowOrchestrator.__init__, lines 16-20: each analyst constructs its
\* own CerebrasClient from the environment of that moment
OrchestratorInit(env) ==
    [s \in Stages |-> CerebrasClientInit(env.names, EmptyDict).value]

\* a client that is looked up from AI_PROVIDER when the request is sent
ClientFromEnviron(stage, clients, env) ==
    IF AIClientInit(env, JNull).raised THEN clients[stage]
    ELSE AIClientInit(env, JNull).value

\* self.client of the analyst of a stage (cv_analyzer.py line 46,
\* cv_optimizer.py, cover_letter_gen.py): the client of its construction
ClientOf(stage, clients, env) == clients[stage]

\* the request a stage of run r sends: the run's texts, to the stage's client
RequestOf(r, stage, clients) ==
    [cv_text |-> r, jd_text |-> r, client |-> ClientOf(stage, clients, environ)]

\* a request that has not arrived
NotArrived ==
    [pc |-> "idle", orchestrator |-> "none", clients |-> JNull,
     generate_cover_letter |-> FALSE,
     replies |-> [s \in Stages |-> NotCalled],
     sent |-> [s \in Stages |-> JNull],
     out |-> JNull]

\* what requests.post does in the requests served side by side
ServiceOutcomes(stage) ==
    CASE stage = "analyzer" ->
             {Exc("Timeout"), Replied(AnalyzerReplies[1])}
      [] stage = "optimizer" ->
             {Response(429, NoHeaders, JNull), Replied(OptimizerReplies[1])}
      [] OTHER ->
             {Exc("Timeout"), Replied(CoverLetterReplies[1])}

ServiceInit ==
    /\ AtRest
    /\ enable_local_fallback = FALSE
    /\ call = NoCall
    /\ outcome = NoOutcome
    /\ db = NoDocuments
    /\ environ = [names |-> {"CEREBRAS_API_KEY", "OPENAI_API_KEY"},
                  AI_PROVIDER |-> JNull]
    /\ runs = [orchestrator |-> OrchestratorInit(environ),
               requests |-> [r \in 1..MaxRequests |-> NotArrived]]

\* what each analyst does with each of these outcomes
AnalyzerOutcome ==
    [h \in ServiceOutcomes("analyzer") |-> Analyze(ChatCompletion(h))]
OptimizerOutcome ==
    [h \in ServiceOutcomes("optimizer") |-> OptimizeComprehensive(ChatCompletion(h))]
CoverLetterOutcome ==
    [h \in ServiceOutcomes("cover_letter") |-> Generate(ChatCompletion(h))]

\* the analysis of run r, once its analyzer has returned
AnalysisOf(r) == AnalyzerOutcome[runs.requests[r].replies["analyzer"]].value

Ends(r, pc2, out, stage, h) ==
    runs' = [runs EXCEPT !.requests[r].pc = pc2,
                         !.requests[r].out = out,
                         !.requests[r].replies[stage] = h]

Calls(r, pc2, stage, h, next) ==
    runs' = [runs EXCEPT
                !.requests[r].pc = pc2,
                !.requests[r].replies[stage] = h,
                !.requests[r].sent[next] = RequestOf(r, next, runs.requests[r].clients)]

\* lines 57-74 of the orchestrator, in run r
Assembles(r, an, opt, cl, stage, h) ==
    IF AssembleRaises(an) # "none"
    THEN Ends(r, "failed", Raise(AssembleRaises(an), <<"get">>), stage, h)
    ELSE Ends(r, "done", WorkflowResult(an, opt, cl), stage, h)

\* a request arrives: main.py line 265 runs it on the orchestrator of the
\* process, n8n_integration.py line 103 and resume.py line 1199 on one of
\* their own; the analyzer's request is sent
Arrive(r, which, g) ==
    /\ runs.requests[r].pc = "idle"
    /\ LET clients == IF which = "process" THEN runs.orchestrator
                      ELSE OrchestratorInit(environ)
       IN  runs' = [runs EXCEPT !.requests[r] =
                       [NotArrived EXCEPT
                           !.pc = "analyzing",
                           !.orchestrator = which,
                           !.clients = clients,
                           !.generate_cover_letter = g,
                           !.sent["analyzer"] = RequestOf(r, "analyzer", clients)]]
    /\ UNCHANGED <<workflow, call, outcome, environ, db>>

AnalyzerAnswered(r, h) ==
    /\ runs.requests[r].pc = "analyzing"
    /\ \E out \in {AnalyzerOutcome[h]} :
           IF out.raised THEN Ends(r, "failed", out, "analyzer", h)
           ELSE Calls(r, "optimizing", "analyzer", h, "optimizer")
    /\ UNCHANGED <<workflow, call, outcome, environ, db>>

OptimizerAnswered(r, h) ==
    /\ runs.requests[r].pc = "optimizing"
    /\ \E out \in {OptimizerOutcome[h]}, an \in {AnalysisOf(r)} :
           IF out.raised THEN Ends(r, "failed", out, "optimizer", h)
           ELSE IF ~runs.requests[r].generate_cover_letter
           THEN Assembles(r, an, out.value, JNull, "optimizer", h)
           ELSE IF CandidateDataRaises(an) # "none"
           THEN Ends(r, "failed",
                     Raise(CandidateDataRaises(an), <<"_generate_cover_letter">>),
                     "optimizer", h)
           ELSE IF JoinSkillsRaises(an)
           THEN Ends(r, "failed", Raise("TypeError", <<"join">>), "optimizer", h)
           ELSE Calls(r, "generating", "optimizer", h, "cover_letter")
    /\ UNCHANGED <<workflow, call, outcome, environ, db>>

CoverLetterAnswered(r, h) ==
    /\ runs.requests[r].pc = "generating"
    /\ \E out \in {CoverLetterOutcome[h]},
          opt \in {OptimizerOutcome[runs.requests[r].replies["optimizer"]].value} :
           IF out.raised THEN Ends(r, "failed", out, "cover_letter", h)
           ELSE Assembles(r, AnalysisOf(r), opt, out.value, "cover_letter", h)
    /\ UNCHANGED <<workflow, call, outcome, environ, db>>

\* a switch-provider request, served between the stages of the runs
SwitchProvider(request) ==
    /\ environ' = SwitchAiProvider(environ, request, Exc("Timeout")).environ
    /\ environ' # environ
    /\ UNCHANGED <<workflow, call, outcome, db, runs>>

SwitchRequests ==
    [provider : {"cerebras", "openai", "mistral"},
     test_connection : BOOLEAN]

ServiceNext ==
    \/ \E r \in 1..MaxRequests, which \in {"process", "own"}, g \in BOOLEAN :
           Arrive(r, which, g)
    \/ \E r \in 1..MaxRequests, h \in ServiceOutcomes("analyzer") :
           AnalyzerAnswered(r, h)
    \/ \E r \in 1..MaxRequests, h \in ServiceOutcomes("optimizer") :
           OptimizerAnswered(r, h)
    \/ \E r \in 1..MaxRequests, h \in ServiceOutcomes("cover_letter") :
           CoverLetterAnswered(r, h)
    \/ \E request \in SwitchRequests : SwitchProvider(request)

ServiceSpec == ServiceInit /\ [][ServiceNext]_vars

\* the requests a run has sent so far
SentBy(r) == {s \in Stages : runs.requests[r].sent[s] # JNull}

-----------------------------------------------------------------------------
(* The optimize endpoint of the resume router *)

\* an optimizer reply with an experience entry that is no mapping
\*    {"user_information": {"name": "Jane", "experiences": ["Acme"]}}
ReplyWithBareExperience ==
    <<"{", Quote, "user_information", Quote, ":", SP, "{", Quote, "name", Quote,
      ":", SP, Quote, "Jane", Quote, ",", SP, Quote, "experiences", Quote, ":",
      SP, "[", Quote, "Acme", Quote, "]", "}", "}">>

\* what the optimizer's request is answered with in the endpoint
EndpointOptimizerOutcomes ==
    Outcomes(OptimizerReplies) \cup {Replied(ReplyWithBareExperience)}

\* the analysts on every outcome of their provider call
AnalyzeTable == [h \in Outcomes(AnalyzerReplies) |-> Analyze(ChatCompletion(h))]
OptimizeTable ==
    [h \in EndpointOptimizerOutcomes |-> OptimizeComprehensive(ChatCompletion(h))]

\* optimize_cv_for_job(cv_text, jd_text, generate_cover_letter=False) as the
\* endpoint calls it, lines 1199-1207: what it returns or raises when the
\* analyzer returns or raises an and the optimizer opt
OptimizeCvForJob(an, opt) ==
    IF an.raised THEN an
    ELSE IF opt.raised THEN opt
    ELSE IF AssembleRaises(an.value) # "none"
    THEN Raise(AssembleRaises(an.value), <<"get">>)
    ELSE Return(WorkflowResult(an.value, opt.value, JNull))

\* ResumeData.parse_obj(data): the strict validation of the resume schema
ParseObj(data) ==
    IF SchemaSatisfied(data) THEN Return(data)
    ELSE Raise("ValidationError", <<"validation error for ResumeData">>)

\* int(x) of a number or a bool in arithmetic
AsNumber(x) == IF x.t = "bool" THEN (IF x.v THEN 1 ELSE 0) ELSE x.v

\* a result that is taken to hold no error
HasNoError(doc) == "no"

\* `"error" in result`, lines 1209 and 1223: "yes", "no", or "TypeError" for a
\* result that is no container
HasError(doc) ==
    CASE IsDict(doc) -> IF Has(doc, "error") THEN "yes" ELSE "no"
      [] IsList(doc) ->
             IF \E i \in 1..Len(doc.v) : doc.v[i] = JStr(<<"error">>)
             THEN "yes" ELSE "no"
      [] IsStr(doc) ->
             IF \E i \in 1..Len(doc.v) : doc.v[i] = "error" THEN "yes" ELSE "no"
      [] OTHER -> "TypeError"

\* a resume that was never optimized
NotOptimized ==
    [optimized_data |-> JNull, ats_score |-> JNull, original_ats_score |-> JNull,
     matching_skills |-> EmptyList, missing_skills |-> EmptyList,
     score_improvement |-> JNull, recommendation |-> JStr(<<>>)]

\* every failure of the endpoint ends in an HTTPException with status 500
\* and leaves the resume as it was
Refused(resume, steps) ==
    [status |-> 500, body |-> JNull, resume |-> resume, steps |-> steps]

\* optimize_resume from line 1181 on: `original` is what analyzing the
\* original content returned or raised, `ran` what optimize_cv_for_job did,
\* db_fails whether update_optimized_data raises
OptimizeResume(resume, original, ran, db_fails) ==
    IF original.raised \/ ~IsDict(original.value) \/ ran.raised
    THEN Refused(resume, <<>>)
    ELSE LET original_ats_score == Get(original.value, "ats_score", JNum(0))
             optimized_cv == ran.value.optimized_cv
             optimized_analysis == ran.value.analysis
         IN  IF original_ats_score.t \notin {"num", "bool"}
             THEN Refused(resume, <<>>)
             ELSE IF HasError(optimized_cv) # "no"
             THEN Refused(resume, <<>>)
             ELSE LET optimized_ats_score ==
                          Get(optimized_analysis, "ats_score",
                              JNum(AsNumber(original_ats_score) + 10))
                      cleaned_result == CleanMarkdownFormatting(optimized_cv)
                      sanitized_result == SanitizeForPydantic(cleaned_result)
                      validated == ParseObj(sanitized_result)
                  IN  IF validated.raised
                      THEN Refused(resume, <<"clean", "sanitize", "validate">>)
                      ELSE IF optimized_ats_score.t \notin {"num", "bool"}
                      THEN Refused(resume, <<"clean", "sanitize", "validate">>)
                      ELSE IF db_fails
                      THEN Refused(resume, <<"clean", "sanitize", "validate", "update">>)
                      ELSE LET stored ==
                                   [optimized_data |-> validated.value,
                                    ats_score |-> optimized_ats_score,
                                    original_ats_score |-> original_ats_score,
                                    matching_skills |->
                                        Get(optimized_analysis, "matching_skills",
                                            EmptyList),
                                    missing_skills |->
                                        Get(optimized_analysis, "missing_skills",
                                            EmptyList),
                                    score_improvement |->
                                        JNum(AsNumber(optimized_ats_score)
                                             - AsNumber(original_ats_score)),
                                    recommendation |->
                                        Get(optimized_analysis, "recommendation",
                                            JStr(<<>>))]
                           IN  [status |-> 200,
                                body |-> [stored EXCEPT !.optimized_data = optimized_cv],
                                resume |-> stored,
                                steps |-> <<"clean", "sanitize", "validate", "update">>]

\* a resume that was optimized before
OptimizedBefore ==
    [NotOptimized EXCEPT
        !.optimized_data = SanitizeForPydantic(EmptyDict),
        !.ats_score = JNum(60),
        !.original_ats_score = JNum(50),
        !.score_improvement = JNum(10),
        !.matching_skills = JArr(<<JStr(<<"SQL">>)>>)]

EndpointInit ==
    /\ AtRest
    /\ enable_local_fallback = FALSE
    /\ environ = NoEnviron
    /\ runs = <<>>
    /\ db \in [resume : {NotOptimized, OptimizedBefore}]
    /\ call \in [op : {"optimize_resume"},
                 original : {Exc("Timeout"), Replied(AnalyzerReplies[1]),
                             Replied(AnalyzerReplies[2])},
                 analyzer : Outcomes(AnalyzerReplies),
                 optimizer : EndpointOptimizerOutcomes,
                 db_fails : BOOLEAN]
    /\ outcome = NoOutcome

\* the request is served to its end
ServeOptimize ==
    /\ call.op = "optimize_resume" /\ outcome = NoOutcome
    /\ \E ran \in {OptimizeCvForJob(AnalyzeTable[call.analyzer],
                                     OptimizeTable[call.optimizer])} :
       \E served \in {OptimizeResume(db.resume, AnalyzeTable[call.original], ran,
                                     call.db_fails)} :
           /\ db' = [db EXCEPT !.resume = served.resume]
           /\ outcome' = [state |-> "done", before |-> db.resume, run |-> ran,
                          status |-> served.status, body |-> served.body,
                          steps |-> served.steps]
    /\ UNCHANGED <<workflow, call, environ, runs>>

EndpointNext == ServeOptimize

EndpointSpec == EndpointInit /\ [][EndpointNext]_vars

Served == outcome.state = "done" /\ call.op = "optimize_resume"

\* the optimizer's result is an error envelope
IsErrorEnvelope ==
    /\ ~outcome.run.raised
    /\ IsDict(outcome.run.value.optimized_cv)
    /\ Has(outcome.run.value.optimized_cv, "error")

C29_SkillAnalysisPassedThrough ==
    (Served /\ outcome.status = 200) =>
        /\ db.resume.matching_skills = JArr(outcome.run.value.matching_skills)
        /\ db.resume.missing_skills = JArr(outcome.run.value.missing_skills)
        /\ db.resume.recommendation = outcome.run.value.recommendation
        /\ outcome.body.matching_skills = JArr(outcome.run.value.matching_skills)
        /\ outcome.body.missing_skills = JArr(outcome.run.value.missing_skills)
        /\ outcome.body.recommendation = outcome.run.value.recommendation


\* ---------------------------------------------------------------------------
\* Application status of a resume (resume router)
\* ---------------------------------------------------------------------------

ResumeIds == {"r1", "r2"}

\* an id no resume has
MissingId == "r0"

\* a resume as the status endpoints see it; a date is "none" or "now"
NewResume ==
    [application_status |-> "not_applied", is_applied |-> FALSE,
     is_answered |-> FALSE, applied_date |-> "none", answered_date |-> "none"]

valid_statuses == {"not_applied", "applied", "answered", "rejected", "interview"}

\* the statuses a request can carry; "" is a body without application_status
RequestedStatuses == valid_statuses \cup {"hired", ""}

\* repo.update_resume: the fields of update_data replace those of the stored
\* resume; False when no resume has the id or the store fails
UpdateResume(store, resume_id, update_data, fails) ==
    IF resume_id \notin DOMAIN store \/ fails
    THEN [success |-> FALSE, store |-> store]
    ELSE [success |-> TRUE,
          store |-> [store EXCEPT ![resume_id] =
                        [f \in DOMAIN @ |-> IF f \in DOMAIN update_data
                                            THEN update_data[f] ELSE @[f]]]]

\* update_data of update_resume_status
StatusUpdate(new_status) ==
    LET flags == [application_status |-> new_status,
                  is_applied |-> new_status \in {"applied", "answered",
                                                 "rejected", "interview"},
                  is_answered |-> new_status \in {"answered", "rejected",
                                                  "interview"}]
    IN  CASE new_status = "applied" -> flags @@ [applied_date |-> "now"]
          [] new_status = "answered" -> flags @@ [answered_date |-> "now"]
          [] OTHER -> flags

UpdateResumeStatus(store, resume_id, new_status, fails) ==
    IF new_status \notin valid_statuses
    THEN [status |-> 400, store |-> store]
    ELSE LET updated == UpdateResume(store, resume_id,
                                     StatusUpdate(new_status), fails)
         IN  IF ~updated.success THEN [status |-> 404, store |-> store]
             ELSE [status |-> 200, store |-> updated.store]

\* mark_resume_as_applied, mark_resume_as_answered and reset_resume_status
\* differ in update_data only
FlagUpdate(op) ==
    CASE op = "mark_applied" -> [is_applied |-> TRUE, applied_date |-> "now"]
      [] op = "mark_answered" -> [is_answered |-> TRUE, answered_date |-> "now"]
      [] op = "reset" -> [is_applied |-> FALSE, applied_date |-> "none",
                          is_answered |-> FALSE, answered_date |-> "none"]

FlagEndpoint(store, op, resume_id, fails) ==
    IF resume_id \notin DOMAIN store
    THEN [status |-> 404, store |-> store]
    ELSE LET updated == UpdateResume(store, resume_id, FlagUpdate(op), fails)
         IN  IF ~updated.success THEN [status |-> 500, store |-> store]
             ELSE [status |-> 200, store |-> updated.store]

StatusInit ==
    /\ AtRest
    /\ enable_local_fallback = FALSE
    /\ environ = NoEnviron
    /\ runs = <<>>
    /\ db = [r \in ResumeIds |-> NewResume]
    /\ call = NoCall
    /\ outcome = NoOutcome

\* what is kept of a served request
StatusServed(op, resume_id, arg, served) ==
    [state |-> "done", op |-> op, resume_id |-> resume_id, arg |-> arg,
     before |-> db, status |-> served.status]

ServeUpdateStatus ==
    \E resume_id \in ResumeIds \cup {MissingId}, new_status \in RequestedStatuses,
       fails \in BOOLEAN :
        LET served == UpdateResumeStatus(db, resume_id, new_status, fails)
        IN  /\ db' = served.store
            /\ outcome' = StatusServed("update_status", resume_id, new_status,
                                       served)
            /\ UNCHANGED <<workflow, call, environ, runs>>

ServeMarkApplied ==
    \E resume_id \in ResumeIds \cup {MissingId}, fails \in BOOLEAN :
        LET served == FlagEndpoint(db, "mark_applied", resume_id, fails)
        IN  /\ db' = served.store
            /\ outcome' = StatusServed("mark_applied", resume_id, "", served)
            /\ UNCHANGED <<workflow, call, environ, runs>>

ServeMarkAnswered ==
    \E resume_id \in ResumeIds \cup {MissingId}, fails \in BOOLEAN :
        LET served == FlagEndpoint(db, "mark_answered", resume_id, fails)
        IN  /\ db' = served.store
            /\ outcome' = StatusServed("mark_answered", resume_id, "", served)
            /\ UNCHANGED <<workflow, call, environ, runs>>

ServeResetStatus ==
    \E resume_id \in ResumeIds \cup {MissingId}, fails \in BOOLEAN :
        LET served == FlagEndpoint(db, "reset", resume_id, fails)
        IN  /\ db' = served.store
            /\ outcome' = StatusServed("reset", resume_id, "", served)
            /\ UNCHANGED <<workflow, call, environ, runs>>

StatusNext ==
    \/ ServeUpdateStatus
    \/ ServeMarkApplied
    \/ ServeMarkAnswered
    \/ ServeResetStatus

StatusSpec == StatusInit /\ [][StatusNext]_vars

FlagsAgree(resume) ==
    /\ resume.is_applied <=>
           resume.application_status \in {"applied", "answered", "rejected",
                                          "interview"}
    /\ resume.is_answered <=>
           resume.application_status \in {"answered", "rejected", "interview"}
    /\ resume.is_answered => resume.is_applied

\* C27: after any sequence of status operations the legacy flags of every
\* resume agree with its application_status (is_applied exactly for applied,
\* answered, rejected, interview; is_answered exactly for answered, rejected,
\* interview; is_answered implies is_applied), and an update_resume_status
\* request with a status outside the five valid ones changes nothing.
C27_LegacyFlagsAgreeWithStatus ==
    /\ \A r \in DOMAIN db : FlagsAgree(db[r])
    /\ ( /\ outcome.state = "done" /\ outcome.op = "update_status"
         /\ outcome.arg \notin valid_statuses )
       => db = outcome.before /\ outcome.status = 400


\* ---------------------------------------------------------------------------
\* Switching the provider (n8n routes)
\* ---------------------------------------------------------------------------

\* health_check(), lines 47-58: get_ai_client() constructs a client from the
\* environment; an exception of the constructor leaves the handler
HealthCheck(env) ==
    LET client == AIClientInit(env, JNull)
    IN  IF client.raised THEN [status |-> 500, body |-> JNull]
        ELSE [status |-> 200,
              body |-> JObj(<<KV("status", JStr(<<"healthy">>)),
                              KV("service", JStr(<<"PowerCV">>)),
                              KV("ai_provider", Item(client.value, "provider")),
                              KV("ai_model", Item(client.value, "model_name"))>>)]

CredentialNames == {"API_KEY", "CEREBRAS_API_KEY", "OPENAI_API_KEY"}

SwitchInit ==
    /\ AtRest
    /\ enable_local_fallback = FALSE
    /\ db = NoDocuments
    /\ runs = <<>>
    /\ environ \in [names : SUBSET CredentialNames,
                    AI_PROVIDER : {JNull, JStr(<<"cerebras">>), JStr(<<"openai">>)}]
    /\ call = NoCall
    /\ outcome = NoOutcome

ServeSwitchProvider ==
    \E request \in [provider : {"deepseek", "cerebras", "openai", "mistral"},
                    test_connection : BOOLEAN],
       h \in ServiceOutcomes("analyzer") :
        LET served == SwitchAiProvider(environ, request, h)
        IN  /\ environ' = served.environ
            /\ outcome' = [state |-> "done", op |-> "switch_provider",
                           request |-> request, before |-> environ,
                           status |-> served.status, body |-> served.body]
            /\ UNCHANGED <<workflow, call, db, runs>>

ServeHealthCheck ==
    /\ outcome' = [state |-> "done", op |-> "health", before |-> environ,
                   status |-> HealthCheck(environ).status,
                   body |-> HealthCheck(environ).body]
    /\ UNCHANGED <<workflow, call, environ, db, runs>>

SwitchNext == ServeSwitchProvider \/ ServeHealthCheck

SwitchSpec == SwitchInit /\ [][SwitchNext]_vars

\* C28: a switch-provider request is all-or-nothing: when it ends in an error
\* response (unknown provider, or the provider's credential is missing)
\* AI_PROVIDER keeps the value it had before the request, so a health check
\* that worked before the request still works after it; AI_PROVIDER changes
\* only when the request reports success.
C28_SwitchIsAllOrNothing ==
    (outcome.state = "done" /\ outcome.op = "switch_provider")
        => /\ outcome.status # 200
               => /\ environ = outcome.before
                  /\ HealthCheck(outcome.before).status = 200
                         => HealthCheck(environ).status = 200
           /\ environ.AI_PROVIDER # outcome.before.AI_PROVIDER
               => outcome.status = 200


\* ---------------------------------------------------------------------------
\* Cover letters: create, generate, update, delete, download (cover letter
\* router)
\* ---------------------------------------------------------------------------

CoverLetterIds == {"c1", "c2"}

\* no cover letter was created, none was generated
NoLetters == [used |-> {}, generated |-> {}]

\* create_cover_letter, lines 162-200: the stored letter has empty content and
\* is_generated False; repo.create_cover_letter returns no id when it fails
CreateCoverLetterEntry(store, id, title, fails) ==
    IF fails THEN [status |-> 500, store |-> store]
    ELSE [status |-> 200,
          store |-> [i \in DOMAIN store \cup {id} |->
                        IF i = id
                        THEN [title |-> title, content_data |-> "empty",
                              generated_content |-> "none",
                              is_generated |-> FALSE]
                        ELSE store[i]]]

\* generate_cover_letter, lines 240-297: validation_errors is what
\* validate_content_data returns for the request's content
GenerateCoverLetterEntry(store, id, content, validation_errors, fails) ==
    IF id \notin DOMAIN store THEN [status |-> 404, store |-> store]
    ELSE IF validation_errors THEN [status |-> 400, store |-> store]
    ELSE LET update_data == [content_data |-> content,
                             generated_content |-> "generated",
                             is_generated |-> TRUE]
             updated == UpdateResume(store, id, update_data, fails)
         IN  IF ~updated.success THEN [status |-> 500, store |-> store]
             ELSE [status |-> 200, store |-> updated.store]

\* update_cover_letter, lines 398-410: update_data is the request's body, as
\* it came
UpdateCoverLetterEntry(store, id, update_data, fails) ==
    IF id \notin DOMAIN store THEN [status |-> 404, store |-> store]
    ELSE LET updated == UpdateResume(store, id, update_data, fails)
         IN  IF ~updated.success THEN [status |-> 500, store |-> store]
             ELSE [status |-> 200, store |-> updated.store]

\* delete_cover_letter, lines 437-449
DeleteCoverLetterEntry(store, id, fails) ==
    IF id \notin DOMAIN store THEN [status |-> 404, store |-> store]
    ELSE IF fails THEN [status |-> 500, store |-> store]
    ELSE [status |-> 200, store |-> [i \in DOMAIN store \ {id} |-> store[i]]]

\* download_cover_letter_pdf, lines 477-524: the response the handler
\* returns; pdf_ok is whether the LaTeX run produced a file
DownloadCoverLetterPdf(store, id, pdf_ok) ==
    IF id \notin DOMAIN store THEN [status |-> 404, media_type |-> "none"]
    ELSE IF ~store[id].is_generated THEN [status |-> 400, media_type |-> "none"]
    ELSE IF ~pdf_ok THEN [status |-> 500, media_type |-> "none"]
    ELSE [status |-> 200, media_type |-> "application/pdf"]

\* bodies of update requests
UpdateBodies ==
    {[title |-> "renamed"], [generated_content |-> "edited"],
     [is_generated |-> TRUE], [is_generated |-> FALSE]}

LettersInit ==
    /\ AtRest
    /\ enable_local_fallback = FALSE
    /\ environ = NoEnviron
    /\ db = NoDocuments
    /\ runs = NoLetters
    /\ call = NoCall
    /\ outcome = NoOutcome

LetterServed(op, id, served) ==
    [state |-> "done", op |-> op, id |-> id, before |-> db,
     status |-> served.status]

\* the store gives every new letter an id of its own
ServeCreate ==
    \E id \in CoverLetterIds \ runs.used, fails \in BOOLEAN :
        LET served == CreateCoverLetterEntry(db, id, "letter", fails)
        IN  /\ db' = served.store
            /\ runs' = [runs EXCEPT !.used = IF served.status = 200
                                             THEN @ \cup {id} ELSE @]
            /\ outcome' = LetterServed("create", id, served)
            /\ UNCHANGED <<workflow, call, environ>>

ServeGenerate ==
    \E id \in CoverLetterIds, validation_errors \in BOOLEAN, fails \in BOOLEAN :
        LET served == GenerateCoverLetterEntry(db, id, "filled",
                                               validation_errors, fails)
        IN  /\ db' = served.store
            /\ runs' = [runs EXCEPT !.generated = IF served.status = 200
                                                  THEN @ \cup {id} ELSE @]
            /\ outcome' = LetterServed("generate", id, served)
            /\ UNCHANGED <<workflow, call, environ>>

ServeUpdate ==
    \E id \in CoverLetterIds, update_data \in UpdateBodies, fails \in BOOLEAN :
        LET served == UpdateCoverLetterEntry(db, id, update_data, fails)
        IN  /\ db' = served.store
            /\ outcome' = LetterServed("update", id, served)
            /\ UNCHANGED <<workflow, call, environ, runs>>

ServeDelete ==
    \E id \in CoverLetterIds, fails \in BOOLEAN :
        LET served == DeleteCoverLetterEntry(db, id, fails)
        IN  /\ db' = served.store
            /\ outcome' = LetterServed("delete", id, served)
            /\ UNCHANGED <<workflow, call, environ, runs>>

ServeDownload ==
    \E id \in CoverLetterIds, pdf_ok \in BOOLEAN :
        /\ outcome' = LetterServed("download", id,
                                   DownloadCoverLetterPdf(db, id, pdf_ok))
        /\ UNCHANGED <<workflow, call, environ, db, runs>>

LettersNext ==
    \/ ServeCreate
    \/ ServeGenerate
    \/ ServeUpdate
    \/ ServeDelete
    \/ ServeDownload

LettersSpec == LettersInit /\ [][LettersNext]_vars

\* C30: a download returns a PDF only if an earlier generate request on that
\* cover letter succeeded: a letter is created with is_generated false,
\* is_generated is true only after a generate request that passed validation
\* and stored the generated content, and download is refused while
\* is_generated is false.
C30_DownloadOnlyAfterGenerate ==
    /\ \A id \in DOMAIN db : db[id].is_generated => id \in runs.generated
    /\ (outcome.state = "done" /\ outcome.op = "download")
           => /\ outcome.status = 200 => outcome.id \in runs.generated
              /\ ( /\ outcome.id \in DOMAIN db
                   /\ ~db[outcome.id].is_generated ) => outcome.status = 400

====
